---------------------------- MODULE Spec2Model ----------------------------
(***************************************************************************)
(* Model of the natural-language date/time extractor                       *)
(* (backend/app/services/datetime_parser.py).                              *)
(*                                                                         *)
(* Text is a sequence of one-character strings, so that substring tests    *)
(* and regular-expression searches are computed character by character.    *)
(* An instant is a record [day, hour, minute, second, microsecond] where   *)
(* day is the number of days since 2024-01-01 (a Monday).                  *)
(***************************************************************************)
EXTENDS Integers, Sequences, FiniteSets, TLC

VARIABLES
    input,         \* the text argument of the call
    clock,         \* the system clock at the time of the call
    pc,            \* position of the call in parse_natural_language_datetime
    text,          \* local: text.lower().strip()
    now,           \* local: datetime.now()
    is_all_day,    \* local
    base_date,     \* local: <<>> before it is assigned, <<instant>> after
    time_found,    \* local
    end_datetime,  \* local: <<>> is None
    result,        \* <<>> until the call returns, then <<dict>>
    library,       \* what dateutil does with the clock digits of this text
    previous,      \* <<>>, or the input and result of the call made before
    parked,        \* <<>>, or the frame of the call that is not running
    conv,          \* the call of create_event_from_conversation
    auth,          \* _cached_calendar_service and the calls of
                   \* get_calendar_service
    timers,        \* VoiceCommandProcessor.active_timers and its threads
    meetings,      \* the meetings table and the requests made to it
    slots          \* the call of find_meeting_slots

\* the state outside parse_natural_language_datetime
rest == <<conv, auth, timers, meetings, slots>>

vars == <<input, clock, pc, text, now, is_all_day, base_date, time_found,
          end_datetime, result, library, previous,
          parked, rest>>

\* the state of parse_natural_language_datetime
parser == <<input, clock, pc, text, now, is_all_day, base_date, time_found,
            end_datetime, result, library, previous, parked>>

\* no call of create_event_from_conversation is under way
NoConversation == [pc |-> "none", text |-> <<>>, quickAdd |-> "none",
                   calls |-> <<>>, events |-> <<>>, failure |-> <<>>,
                   reply |-> <<>>]

\* the state outside create_event_from_conversation
besideConv == <<auth, timers, meetings, slots>>

\* nothing but the conversation and the parser it calls is running
BesideConvIdle ==
    /\ auth = <<>>
    /\ timers = <<>>
    /\ meetings = <<>>
    /\ slots = <<>>

\* the rest of the program is idle while the parser is called directly
RestIdle ==
    /\ conv = NoConversation
    /\ BesideConvIdle

(***************************************************************************)
(* Bounds of the model.                                                    *)
(***************************************************************************)
\* The clock is read on one of the days 0..MaxNowDay (day 0 is a Monday).
MaxNowDay == 6
\* dateutil reads the clock again, at most MaxDelayHours after the call did.
MaxDelayHours == 1

(***************************************************************************)
(* Characters.                                                             *)
(***************************************************************************)
UpperLetters == <<"A","B","C","D","E","F","G","H","I","J","K","L","M",
                  "N","O","P","Q","R","S","T","U","V","W","X","Y","Z">>
LowerLetters == <<"a","b","c","d","e","f","g","h","i","j","k","l","m",
                  "n","o","p","q","r","s","t","u","v","w","x","y","z">>
DigitChars == <<"0","1","2","3","4","5","6","7","8","9">>

Range(s) == {s[i] : i \in 1..Len(s)}
UpperSet == Range(UpperLetters)
DigitSet == Range(DigitChars)
WordSet == Range(LowerLetters) \cup Range(UpperLetters) \cup Range(DigitChars)
               \cup {"_"}
Min(S) == CHOOSE x \in S : \A y \in S : x <= y

\* str.lower() on one character
LowerChar(c) ==
    IF c \in UpperSet
    THEN LowerLetters[CHOOSE i \in 1..26 : UpperLetters[i] = c]
    ELSE c

\* str.lower()
Lower(s) == [i \in 1..Len(s) |-> LowerChar(s[i])]

\* \s of the regular expressions and the white space str.strip() removes
IsSpace(c) == c = " "
\* \d
IsDigit(c) == c \in DigitSet
\* \w, as \b uses it
IsWordChar(c) == c \in WordSet

\* int() of one digit
DigitVal(c) == (CHOOSE i \in 1..10 : DigitChars[i] = c) - 1

\* str.strip()
RECURSIVE LStrip(_)
LStrip(s) == IF s # <<>> /\ IsSpace(Head(s)) THEN LStrip(Tail(s)) ELSE s
RECURSIVE RStrip(_)
RStrip(s) == IF s # <<>> /\ IsSpace(s[Len(s)])
             THEN RStrip(SubSeq(s, 1, Len(s) - 1)) ELSE s
Strip(s) == RStrip(LStrip(s))

\* the character at position i, "" outside the text
At(t, i) == IF i \in 1..Len(t) THEN t[i] ELSE ""

\* the literal w occurs in t at position i
StartsAt(t, i, w) ==
    /\ i >= 1
    /\ i + Len(w) - 1 <= Len(t)
    /\ \A k \in 1..Len(w) : t[i + k - 1] = w[k]

\* Python's  w in t
Contains(t, w) == \E i \in 1..(Len(t) - Len(w) + 1) : StartsAt(t, i, w)

\* \s* from position i: the position of the first character that is no space
RECURSIVE SkipSpaces(_, _)
SkipSpaces(t, i) == IF IsSpace(At(t, i)) THEN SkipSpaces(t, i + 1) ELSE i

\* \b between positions i-1 and i
WordBoundary(t, i) == IsWordChar(At(t, i - 1)) # IsWordChar(At(t, i))

(***************************************************************************)
(* Literals of the source.                                                 *)
(***************************************************************************)
K_tomorrow == <<"t","o","m","o","r","r","o","w">>
K_today == <<"t","o","d","a","y">>
K_day_after_tomorrow == <<"d","a","y"," ","a","f","t","e","r"," ","t","o","m","o","r","r","o","w">>
K_next == <<"n","e","x","t">>
K_this == <<"t","h","i","s">>
K_weekend == <<"w","e","e","k","e","n","d">>
K_next_week == <<"n","e","x","t"," ","w","e","e","k">>
K_next_month == <<"n","e","x","t"," ","m","o","n","t","h">>
K_monday == <<"m","o","n","d","a","y">>
K_tuesday == <<"t","u","e","s","d","a","y">>
K_wednesday == <<"w","e","d","n","e","s","d","a","y">>
K_thursday == <<"t","h","u","r","s","d","a","y">>
K_friday == <<"f","r","i","d","a","y">>
K_saturday == <<"s","a","t","u","r","d","a","y">>
K_sunday == <<"s","u","n","d","a","y">>
K_all == <<"a","l","l">>
K_full == <<"f","u","l","l">>
K_day == <<"d","a","y">>
K_am == <<"a","m">>
K_pm == <<"p","m">>
K_to == <<"t","o">>
K_until == <<"u","n","t","i","l">>
K_till == <<"t","i","l","l">>
K_from == <<"f","r","o","m">>
K_at == <<"a","t">>
K_august_15 == <<"a","u","g","u","s","t"," ","1","5">>

\* the weekday names in the order of the branches, Monday first
WeekdayNames == <<K_monday, K_tuesday, K_wednesday, K_thursday, K_friday,
                  K_saturday, K_sunday>>

(***************************************************************************)
(* Dates and instants (datetime, timedelta, relativedelta).                *)
(***************************************************************************)
IsLeap(y) == (y % 4 = 0 /\ y % 100 # 0) \/ y % 400 = 0
DaysInYear(y) == IF IsLeap(y) THEN 366 ELSE 365
DaysInMonth(y, m) ==
    IF m = 2 THEN (IF IsLeap(y) THEN 29 ELSE 28)
    ELSE IF m \in {4, 6, 9, 11} THEN 30 ELSE 31

RECURSIVE DaysBeforeYear(_)
DaysBeforeYear(y) ==
    IF y <= 2024 THEN 0 ELSE DaysBeforeYear(y - 1) + DaysInYear(y - 1)
RECURSIVE DaysBeforeMonth(_, _)
DaysBeforeMonth(y, m) ==
    IF m = 1 THEN 0 ELSE DaysBeforeMonth(y, m - 1) + DaysInMonth(y, m - 1)

\* the day number of the date y-m-d, 2024-01-01 being day 0
ToOrdinal(y, m, d) == DaysBeforeYear(y) + DaysBeforeMonth(y, m) + d - 1

RECURSIVE YearFrom(_, _)
YearFrom(n, y) ==
    IF n < DaysInYear(y) THEN [year |-> y, rest |-> n]
    ELSE YearFrom(n - DaysInYear(y), y + 1)
RECURSIVE MonthFrom(_, _, _)
MonthFrom(n, y, m) ==
    IF n < DaysInMonth(y, m) THEN [month |-> m, rest |-> n]
    ELSE MonthFrom(n - DaysInMonth(y, m), y, m + 1)

\* datetime.date(): the calendar date of a day number
DateOf(n) ==
    LET yr == YearFrom(n, 2024)
        mo == MonthFrom(yr.rest, yr.year, 1)
    IN  [year |-> yr.year, month |-> mo.month, day |-> mo.rest + 1]

\* datetime.weekday(): Monday is 0
Weekday(n) == n % 7

\* a naive datetime; offset is <<m>> in an aware one, m minutes east of UTC
Instant(d, h, mi, s, us) ==
    [day |-> d, hour |-> h, minute |-> mi, second |-> s, microsecond |-> us,
     offset |-> <<>>]

\* the fields of an instant, most significant first
FieldsOf(dt) == <<dt.day, dt.hour, dt.minute, dt.second, dt.microsecond>>

\* datetime.__lt__: the fields compared in order
Before(a, b) ==
    \E i \in 1..5 :
        /\ FieldsOf(a)[i] < FieldsOf(b)[i]
        /\ \A j \in 1..(i - 1) : FieldsOf(a)[j] = FieldsOf(b)[j]

\* dt + timedelta(days=n)
AddDays(dt, n) == [dt EXCEPT !.day = @ + n]

\* dt + timedelta(hours=n)
AddHours(dt, n) ==
    [dt EXCEPT !.day = @ + ((dt.hour + n) \div 24), !.hour = (dt.hour + n) % 24]

\* AddMonths taking a month for thirty days
AddMonthsAsDays(dt, n) == AddDays(dt, 30 * n)

\* dt + relativedelta(months=n), for n in 0..12
AddMonths(dt, n) ==
    LET d == DateOf(dt.day)
        total == d.month + n
        y == IF total > 12 THEN d.year + 1 ELSE d.year
        m == IF total > 12 THEN total - 12 ELSE total
        dd == IF d.day > DaysInMonth(y, m) THEN DaysInMonth(y, m) ELSE d.day
    IN  [dt EXCEPT !.day = ToOrdinal(y, m, dd)]

\* datetime.replace(hour=, minute=, second=0, microsecond=0) raises ValueError
\* unless hour is in 0..23 and minute in 0..59
ValidClock(h, mi) == h \in 0..23 /\ mi \in 0..59
ReplaceClock(dt, h, mi) ==
    [dt EXCEPT !.hour = h, !.minute = mi, !.second = 0, !.microsecond = 0]

(***************************************************************************)
(* Regular expressions.  A match in progress is a record with ok = TRUE,   *)
(* next = the position after the part matched so far and groups = the      *)
(* substrings captured so far (<<>> for a group that took no part); a      *)
(* failed match is NoMatch.  Each piece of a pattern is an operator from    *)
(* the match before the piece to the match after it, and a pattern is the  *)
(* composition of its pieces.  The pieces are greedy; the comments say why *)
(* no shorter alternative can make these patterns match.                   *)
(***************************************************************************)
NoMatch == [ok |-> FALSE]

\* a match that starts at position i
MatchStart(i) == [ok |-> TRUE, next |-> i, groups |-> <<>>]

\* int() of a string of digits
RECURSIVE IntOf(_)
IntOf(s) ==
    IF Len(s) = 1 THEN DigitVal(s[1])
    ELSE 10 * IntOf(SubSeq(s, 1, Len(s) - 1)) + DigitVal(s[Len(s)])

\* \s*
Spaces(t, m) ==
    IF m.ok THEN [m EXCEPT !.next = SkipSpaces(t, m.next)] ELSE m

\* a literal word of a pattern
LiteralAt(t, i, groups, w) ==
    IF StartsAt(t, i, w)
    THEN [ok |-> TRUE, next |-> i + Len(w), groups |-> groups]
    ELSE NoMatch
Literal(t, m, w) == IF m.ok THEN LiteralAt(t, m.next, m.groups, w) ELSE m

\* (\d{1,2}):(\d{2})  The colon that must follow the hour leaves one
\* possible length for it.
HourMinuteAt(t, i, groups) ==
    IF /\ IsDigit(At(t, i)) /\ IsDigit(At(t, i + 1)) /\ At(t, i + 2) = ":"
       /\ IsDigit(At(t, i + 3)) /\ IsDigit(At(t, i + 4))
    THEN [ok |-> TRUE, next |-> i + 5,
          groups |-> groups \o <<SubSeq(t, i, i + 1), SubSeq(t, i + 3, i + 4)>>]
    ELSE IF /\ IsDigit(At(t, i)) /\ At(t, i + 1) = ":"
            /\ IsDigit(At(t, i + 2)) /\ IsDigit(At(t, i + 3))
    THEN [ok |-> TRUE, next |-> i + 4,
          groups |-> groups \o <<SubSeq(t, i, i), SubSeq(t, i + 2, i + 3)>>]
    ELSE NoMatch
HourMinute(t, m) == IF m.ok THEN HourMinuteAt(t, m.next, m.groups) ELSE m

\* (\d{1,2}) before \s*(am|pm).  With two digits at i the one-digit
\* alternative leaves a digit where the meridiem must start.
HourAt(t, i, groups) ==
    IF IsDigit(At(t, i)) /\ IsDigit(At(t, i + 1))
    THEN [ok |-> TRUE, next |-> i + 2,
          groups |-> Append(groups, SubSeq(t, i, i + 1))]
    ELSE IF IsDigit(At(t, i))
    THEN [ok |-> TRUE, next |-> i + 1, groups |-> Append(groups, <<t[i]>>)]
    ELSE NoMatch
Hour(t, m) == IF m.ok THEN HourAt(t, m.next, m.groups) ELSE m

\* (am|pm)
MeridiemAt(t, i, groups) ==
    IF StartsAt(t, i, K_am) \/ StartsAt(t, i, K_pm)
    THEN [ok |-> TRUE, next |-> i + 2,
          groups |-> Append(groups, SubSeq(t, i, i + 1))]
    ELSE NoMatch
Meridiem(t, m) == IF m.ok THEN MeridiemAt(t, m.next, m.groups) ELSE m

\* (am|pm)?  What follows it in the patterns (a separator, or nothing) never
\* needs the meridiem left unmatched.
OptionalMeridiemAt(t, i, groups) ==
    IF StartsAt(t, i, K_am) \/ StartsAt(t, i, K_pm)
    THEN [ok |-> TRUE, next |-> i + 2,
          groups |-> Append(groups, SubSeq(t, i, i + 1))]
    ELSE [ok |-> TRUE, next |-> i, groups |-> Append(groups, <<>>)]
OptionalMeridiem(t, m) ==
    IF m.ok THEN OptionalMeridiemAt(t, m.next, m.groups) ELSE m

\* (?:to|until|till|-)
SeparatorAt(t, i, groups) ==
    IF StartsAt(t, i, K_to)
    THEN [ok |-> TRUE, next |-> i + 2, groups |-> groups]
    ELSE IF StartsAt(t, i, K_until)
    THEN [ok |-> TRUE, next |-> i + 5, groups |-> groups]
    ELSE IF StartsAt(t, i, K_till)
    THEN [ok |-> TRUE, next |-> i + 4, groups |-> groups]
    ELSE IF At(t, i) = "-"
    THEN [ok |-> TRUE, next |-> i + 1, groups |-> groups]
    ELSE NoMatch
Separator(t, m) == IF m.ok THEN SeparatorAt(t, m.next, m.groups) ELSE m

\* (\d{1,2}):(\d{2})\s*(am|pm)?\s*(?:to|until|till|-)\s*(\d{1,2}):(\d{2})\s*(am|pm)?
HourMinuteRange(t, m) ==
    OptionalMeridiem(t, Spaces(t, HourMinute(t, Spaces(t,
        Separator(t, Spaces(t, OptionalMeridiem(t, Spaces(t,
            HourMinute(t, m)))))))))

\* (\d{1,2})\s*(am|pm)\s*(?:to|until|till|-)\s*(\d{1,2})\s*(am|pm)
HourRange(t, m) ==
    Meridiem(t, Spaces(t, Hour(t, Spaces(t,
        Separator(t, Spaces(t, Meridiem(t, Spaces(t, Hour(t, m)))))))))

\* from\s* before the last two range patterns
From(t, i) == Spaces(t, Literal(t, MatchStart(i), K_from))

\* at\s* before two of the single-time patterns
AtWord(t, i) == Spaces(t, Literal(t, MatchStart(i), K_at))

\* time_range_patterns[n - 1] matched at position i
RangePatternAt(t, n, i) ==
    CASE n = 1 -> HourMinuteRange(t, MatchStart(i))
      [] n = 2 -> HourRange(t, MatchStart(i))
      [] n = 3 -> HourMinuteRange(t, From(t, i))
      [] n = 4 -> HourRange(t, From(t, i))

\* re.search(time_range_patterns[n - 1], text): the leftmost match
RangeSearch(t, n) ==
    LET S == {i \in 1..Len(t) : RangePatternAt(t, n, i).ok}
    IN  IF S = {} THEN NoMatch ELSE RangePatternAt(t, n, Min(S))

\* the loop over time_range_patterns: the match of the first pattern that
\* matches, NoMatch when the loop ends without a break
FirstRangeMatch(t) ==
    LET S == {n \in 1..4 : RangeSearch(t, n).ok}
    IN  IF S = {} THEN NoMatch ELSE RangeSearch(t, Min(S))

\* time_patterns[n - 1] matched at position i
TimePatternAt(t, n, i) ==
    CASE n = 1 -> Meridiem(t, Spaces(t, HourMinute(t, MatchStart(i))))
      [] n = 2 -> Meridiem(t, Spaces(t, Hour(t, MatchStart(i))))
      [] n = 3 -> HourMinute(t, AtWord(t, i))
      [] n = 4 -> Meridiem(t, Spaces(t, Hour(t, AtWord(t, i))))
      [] n = 5 -> HourMinute(t, MatchStart(i))

\* re.search(time_patterns[n - 1], text): the leftmost match
TimeSearch(t, n) ==
    LET S == {i \in 1..Len(t) : TimePatternAt(t, n, i).ok}
    IN  IF S = {} THEN NoMatch ELSE TimePatternAt(t, n, Min(S))

\* the loop over time_patterns
FirstTimeMatch(t) ==
    LET S == {n \in 1..5 : TimeSearch(t, n).ok}
    IN  IF S = {} THEN NoMatch ELSE TimeSearch(t, Min(S))

\* re.search(r'\b(all[- ]?day|full[- ]?day)\b', text)
AllDayMarkerAt(t, i) ==
    /\ WordBoundary(t, i)
    /\ \E w \in {K_all, K_full} :
         /\ StartsAt(t, i, w)
         /\ LET j == i + Len(w)
            IN  \/ /\ At(t, j) \in {"-", " "}
                   /\ StartsAt(t, j + 1, K_day)
                   /\ WordBoundary(t, j + 4)
                \/ /\ StartsAt(t, j, K_day)
                   /\ WordBoundary(t, j + 3)
HasAllDayMarker(t) == \E i \in 1..Len(t) : AllDayMarkerAt(t, i)

\* re.search(r'next\s+<weekday>', text) and re.search(r'this\s+weekend', text)
WordsAt(t, i, first, second) ==
    /\ StartsAt(t, i, first)
    /\ IsSpace(At(t, i + Len(first)))
    /\ StartsAt(t, SkipSpaces(t, i + Len(first)), second)
HasWords(t, first, second) == \E i \in 1..Len(t) : WordsAt(t, i, first, second)

(***************************************************************************)
(* The pure pieces of parse_natural_language_datetime.                     *)
(***************************************************************************)
\* 12-hour to 24-hour conversion of one hour with its optional meridiem
NormalizeHour(hour, ampm) ==
    IF ampm # <<>> /\ Lower(ampm) = K_pm /\ hour # 12 THEN hour + 12
    ELSE IF ampm # <<>> /\ Lower(ampm) = K_am /\ hour = 12 THEN 0
    ELSE hour

\* DaysAhead without the correction of 0 to 7
DaysAheadNoCorrection(offset, weekday) == (offset - weekday) % 7

\* DaysAhead without the reduction modulo 7
DaysAheadNoModulo(offset, weekday) == offset - weekday

\* days_ahead of the 'next <weekday>' branches: offset is 7 for Monday up to
\* 13 for Sunday
DaysAhead(offset, weekday) ==
    LET days_ahead == (offset - weekday) % 7
    IN  IF days_ahead = 0 THEN 7 ELSE days_ahead

\* WeekendDaysAhead with the correction of 0 to 7 of the 'next <weekday>'
\* branches
WeekendDaysAheadCorrected(weekday) ==
    IF (5 - weekday) % 7 = 0 THEN 7 ELSE (5 - weekday) % 7

\* days_ahead of the 'this weekend' branch
WeekendDaysAhead(weekday) == (5 - weekday) % 7

\* the weekdays W (0 for Monday) whose 'next <weekday>' pattern matches
NextWeekdaysIn(t) == {w \in 0..6 : HasWords(t, K_next, WeekdayNames[w + 1])}

\* n characters of t from position i are digits
IsDigits(t, i, n) == \A j \in i..(i + n - 1) : IsDigit(At(t, j))

\* n written with width digits
RECURSIVE Digits(_, _)
Digits(n, width) ==
    IF width = 0 THEN <<>>
    ELSE Digits(n \div 10, width - 1) \o <<DigitChars[(n % 10) + 1]>>

\* the UTC offset of isoformat(): +hh:mm or -hh:mm
OffsetFormat(m) ==
    IF m < 0
    THEN <<"-">> \o Digits((0 - m) \div 60, 2) \o <<":">>
             \o Digits((0 - m) % 60, 2)
    ELSE <<"+">> \o Digits(m \div 60, 2) \o <<":">> \o Digits(m % 60, 2)

\* datetime.isoformat(): the microsecond is written only when it is not 0,
\* the UTC offset only for an aware datetime
IsoFormat(dt) ==
    LET d == DateOf(dt.day)
    IN  Digits(d.year, 4) \o <<"-">> \o Digits(d.month, 2) \o <<"-">>
            \o Digits(d.day, 2) \o <<"T">> \o Digits(dt.hour, 2) \o <<":">>
            \o Digits(dt.minute, 2) \o <<":">> \o Digits(dt.second, 2)
            \o (IF dt.microsecond = 0 THEN <<>>
                ELSE <<".">> \o Digits(dt.microsecond, 6))
            \o (IF dt.offset = <<>> THEN <<>>
                ELSE OffsetFormat(dt.offset[1]))

\* .ffffff at position i of t
IsFractionAt(t, i) == At(t, i) = "." /\ IsDigits(t, i + 1, 6)

\* +hh:mm or -hh:mm at position i of t, ending t
IsOffsetAt(t, i) ==
    /\ At(t, i) \in {"+", "-"}
    /\ IsDigits(t, i + 1, 2) /\ At(t, i + 3) = ":" /\ IsDigits(t, i + 4, 2)
    /\ Len(t) = i + 5

\* t has the shape of datetime.isoformat() after str.lower():
\* yyyy-mm-ddthh:mm:ss, then .ffffff and a UTC offset if the datetime has them
IsIsoText(t) ==
    /\ IsDigits(t, 1, 4) /\ At(t, 5) = "-"
    /\ IsDigits(t, 6, 2) /\ At(t, 8) = "-"
    /\ IsDigits(t, 9, 2) /\ At(t, 11) = "t"
    /\ IsDigits(t, 12, 2) /\ At(t, 14) = ":"
    /\ IsDigits(t, 15, 2) /\ At(t, 17) = ":"
    /\ IsDigits(t, 18, 2)
    /\ \/ Len(t) = 19
       \/ IsFractionAt(t, 20) /\ Len(t) = 26
       \/ IsOffsetAt(t, 20)
       \/ IsFractionAt(t, 20) /\ IsOffsetAt(t, 27)

\* the UTC offset in minutes written at position i of t
OffsetParse(t, i) ==
    (IF t[i] = "-" THEN 0 - 1 ELSE 1)
        * (60 * IntOf(SubSeq(t, i + 1, i + 2)) + IntOf(SubSeq(t, i + 4, i + 5)))

\* the instant dateutil reads from a text of that shape
IsoParse(t) ==
    [day |-> ToOrdinal(IntOf(SubSeq(t, 1, 4)), IntOf(SubSeq(t, 6, 7)),
                       IntOf(SubSeq(t, 9, 10))),
     hour |-> IntOf(SubSeq(t, 12, 13)),
     minute |-> IntOf(SubSeq(t, 15, 16)),
     second |-> IntOf(SubSeq(t, 18, 19)),
     microsecond |-> IF IsFractionAt(t, 20) THEN IntOf(SubSeq(t, 21, 26))
                     ELSE 0,
     offset |-> IF IsOffsetAt(t, Len(t) - 5)
                THEN <<OffsetParse(t, Len(t) - 5)>> ELSE <<>>]

\* the weekday name w stands in t as a word at position i
WeekdayWordAt(t, i, w) ==
    /\ StartsAt(t, i, WeekdayNames[w + 1])
    /\ WordBoundary(t, i)
    /\ WordBoundary(t, i + Len(WeekdayNames[w + 1]))

\* the positions of the weekday names of t
WeekdayWords(t) ==
    {i \in 1..Len(t) : \E w \in 0..6 : WeekdayWordAt(t, i, w)}

\* t has a digit outside the date 'august 15'
HasClockDigits(t) ==
    \E i \in 1..Len(t) :
        /\ IsDigit(t[i])
        /\ ~StartsAt(t, i - 7, K_august_15)
        /\ ~StartsAt(t, i - 8, K_august_15)

\* the date dateutil reads from t: a month and day in the year of its
\* default date, else the first day on or after its default date that has
\* the weekday named last in t, else its default date
FuzzyDay(t, default_day) ==
    IF Contains(t, K_august_15)
    THEN ToOrdinal(DateOf(default_day).year, 8, 15)
    ELSE IF WeekdayWords(t) # {}
    THEN LET last == CHOOSE i \in WeekdayWords(t) :
                         \A j \in WeekdayWords(t) : j <= i
             w == CHOOSE v \in 0..6 : WeekdayWordAt(t, last, v)
         IN  default_day + ((w - Weekday(default_day)) % 7)
    ELSE default_day

\* what dateutil may do with the clock digits of a text: raise, read a clock
\* time, or read a clock time and, from the digits after a '-', a UTC offset
Verdicts == {"raises", "parses", "aware"}

\* the positions of t where a '-' stands before a digit
OffsetDigits(t) == {i \in 1..Len(t) : t[i] = "-" /\ IsDigit(At(t, i + 1))}

\* the UTC offset dateutil reads from the one or two digits after the first
\* such '-': so many hours west
FuzzyOffset(t) ==
    LET i == Min(OffsetDigits(t))
    IN  0 - 60 * IntOf(SubSeq(t, i + 1,
                              IF IsDigit(At(t, i + 2)) THEN i + 2 ELSE i + 1))

\* parser.parse(text, fuzzy=True) of dateutil, whose default date is the day
\* default_day on which it reads the clock: <<>> when it raises, else
\* <<instant>>.  It raises for a text that names no date and no time.  For a
\* text with clock digits the library, a fixed function of the text, either
\* raises or returns its date at a clock time; the texts of the model name
\* no month but August.
FuzzyParse(t, default_day, verdict) ==
    IF IsIsoText(t) THEN <<IsoParse(t)>>
    ELSE IF HasClockDigits(t)
    THEN IF verdict = "raises" THEN <<>>
         ELSE IF verdict = "aware"
         THEN <<[Instant(FuzzyDay(t, default_day), 0, 0, 0, 0)
                    EXCEPT !.offset = <<FuzzyOffset(t)>>]>>
         ELSE <<Instant(FuzzyDay(t, default_day), 0, 0, 0, 0)>>
    ELSE IF Contains(t, K_august_15) \/ WeekdayWords(t) # {}
    THEN <<Instant(FuzzyDay(t, default_day), 0, 0, 0, 0)>>
    ELSE <<>>

\* FuzzyFallback taking the default date of dateutil when it raises
FuzzyFallbackToDefault(t, n, later, verdict) ==
    IF FuzzyParse(t, later.day, verdict) = <<>>
    THEN Instant(later.day, 0, 0, 0, 0)
    ELSE FuzzyParse(t, later.day, verdict)[1]

\* lines 73-78: the fuzzy parse, and now when it raises; later is the clock
\* dateutil reads
FuzzyFallback(t, n, later, verdict) ==
    IF FuzzyParse(t, later.day, verdict) = <<>> THEN n
    ELSE FuzzyParse(t, later.day, verdict)[1]

\* one of the day phrases of lines 24-72 decides the date of t
HasDayPhrase(t) ==
    \/ Contains(t, K_tomorrow)
    \/ Contains(t, K_today)
    \/ NextWeekdaysIn(t) # {}
    \/ HasWords(t, K_this, K_weekend)
    \/ Contains(t, K_next_week)
    \/ Contains(t, K_next_month)

\* DayCandidates testing 'today' before 'tomorrow' and 'next week' before
\* 'this weekend'
DayCandidatesReordered(t, n, verdict) ==
    IF Contains(t, K_today) THEN {n}
    ELSE IF Contains(t, K_tomorrow) THEN {AddDays(n, 1)}
    ELSE IF NextWeekdaysIn(t) # {}
         THEN {AddDays(n, DaysAhead(7 + Min(NextWeekdaysIn(t)), Weekday(n.day)))}
    ELSE IF Contains(t, K_next_week) THEN {AddDays(n, 7)}
    ELSE IF HasWords(t, K_this, K_weekend)
         THEN {AddDays(n, WeekendDaysAhead(Weekday(n.day)))}
    ELSE IF Contains(t, K_next_month) THEN {AddMonths(n, 1)}
    ELSE {FuzzyFallback(t, n, AddHours(n, h), verdict) : h \in 0..MaxDelayHours}

\* the day/date detection: the values base_date may get
DayCandidates(t, n, verdict) ==
    IF Contains(t, K_tomorrow) THEN {AddDays(n, 1)}
    ELSE IF Contains(t, K_today) THEN {n}
    ELSE IF Contains(t, K_day_after_tomorrow) THEN {AddDays(n, 2)}
    ELSE IF NextWeekdaysIn(t) # {}
         THEN {AddDays(n, DaysAhead(7 + Min(NextWeekdaysIn(t)), Weekday(n.day)))}
    ELSE IF HasWords(t, K_this, K_weekend)
         THEN {AddDays(n, WeekendDaysAhead(Weekday(n.day)))}
    ELSE IF Contains(t, K_next_week) THEN {AddDays(n, 7)}
    ELSE IF Contains(t, K_next_month) THEN {AddMonths(n, 1)}
    ELSE {FuzzyFallback(t, n, AddHours(n, h), verdict) : h \in 0..MaxDelayHours}

\* the clock times of a matched range: start and end hour and minute
RangeClock(groups) ==
    IF Len(groups) = 6
    THEN [start_hour |-> NormalizeHour(IntOf(groups[1]), groups[3]),
          start_minute |-> IntOf(groups[2]),
          end_hour |-> NormalizeHour(IntOf(groups[4]), groups[6]),
          end_minute |-> IntOf(groups[5])]
    ELSE [start_hour |-> NormalizeHour(IntOf(groups[1]), groups[2]),
          start_minute |-> 0,
          end_hour |-> NormalizeHour(IntOf(groups[3]), groups[4]),
          end_minute |-> 0]

\* RangeEnd without the move to the next day
RangeEndNoRoll(base, end_hour, end_minute) ==
    ReplaceClock(base, end_hour, end_minute)

\* RangeEnd moving an end that is not later than the start to the next day
RangeEndRollOnEqual(base, end_hour, end_minute) ==
    LET e == ReplaceClock(base, end_hour, end_minute)
    IN  IF Before(base, e) THEN e ELSE AddDays(e, 1)

\* end_datetime of a matched range, from the start already set in base
RangeEnd(base, end_hour, end_minute) ==
    LET e == ReplaceClock(base, end_hour, end_minute)
    IN  IF Before(e, base) THEN AddDays(e, 1) ELSE e

\* the clock time of a matched single time
TimeClock(groups) ==
    IF Len(groups) = 3
    THEN [hour |-> NormalizeHour(IntOf(groups[1]), groups[3]),
          minute |-> IntOf(groups[2])]
    ELSE IF groups[2] \in {K_am, K_pm}
    THEN [hour |-> NormalizeHour(IntOf(groups[1]), groups[2]), minute |-> 0]
    ELSE [hour |-> IntOf(groups[1]), minute |-> IntOf(groups[2])]

\* DefaultEnd keeping the date of the start
DefaultEndSameDay(base) == [base EXCEPT !.hour = (base.hour + 1) % 24]

\* the default end of a single time
DefaultEnd(base) == AddHours(base, 1)

\* HasDayKeyword with a list that does not name the weekend
HasDayKeywordNoWeekend(t) ==
    LET lowered == Lower(t)
    IN  \E keyword \in {K_tomorrow, K_today, K_monday, K_tuesday,
                        K_wednesday, K_thursday, K_friday, K_saturday,
                        K_sunday, K_next_week} :
            Contains(lowered, keyword)

day_keywords == {K_tomorrow, K_today, K_monday, K_tuesday, K_wednesday,
                 K_thursday, K_friday, K_saturday, K_sunday, K_next_week,
                 K_weekend}
HasDayKeyword(t) ==
    LET lowered == Lower(t)
    IN  \E keyword \in day_keywords : Contains(lowered, keyword)

\* BuildResult giving a timed result whenever an end was computed
BuildResultTimedIfEnd(all_day, base, end) ==
    IF all_day /\ end = <<>>
    THEN [success |-> TRUE, is_all_day |-> TRUE, start_date |-> <<base.day>>,
          start_datetime |-> <<>>, end_datetime |-> <<>>]
    ELSE [success |-> TRUE, is_all_day |-> FALSE, start_date |-> <<>>,
          start_datetime |-> <<base>>, end_datetime |-> end]

\* BuildResult setting end_datetime in an all-day result too
BuildResultKeepsEnd(all_day, base, end) ==
    IF all_day
    THEN [success |-> TRUE, is_all_day |-> TRUE, start_date |-> <<base.day>>,
          start_datetime |-> <<>>, end_datetime |-> end]
    ELSE [success |-> TRUE, is_all_day |-> FALSE, start_date |-> <<>>,
          start_datetime |-> <<base>>, end_datetime |-> end]

\* the dictionary returned; a key that is not set is <<>>
BuildResult(all_day, base, end) ==
    IF all_day
    THEN [success |-> TRUE, is_all_day |-> TRUE, start_date |-> <<base.day>>,
          start_datetime |-> <<>>, end_datetime |-> <<>>]
    ELSE [success |-> TRUE, is_all_day |-> FALSE, start_date |-> <<>>,
          start_datetime |-> <<base>>, end_datetime |-> end]

(***************************************************************************)
(* Inputs.                                                                 *)
(***************************************************************************)
T_meet == <<"M","e","e","t">>
T_tomorrow == <<" ","t","o","m","o","r","r","o","w">>
T_today == <<" ","T","o","d","a","y">>
T_day_after_tomorrow == <<" ","d","a","y"," ","a","f","t","e","r"," ","t","o","m","o","r","r","o","w">>
T_next_tuesday_spaced == <<" ","n","e","x","t"," "," ","T","u","e","s","d","a","y">>
T_this_weekend == <<" ","t","h","i","s"," ","w","e","e","k","e","n","d">>
T_next_week == <<" ","n","e","x","t"," ","w","e","e","k">>
T_next_month == <<" ","n","e","x","t"," ","m","o","n","t","h">>
T_on_friday == <<" ","o","n"," ","f","r","i","d","a","y">>
T_on_august_15 == <<" ","o","n"," ","A","u","g","u","s","t"," ","1","5">>
T_all_day == <<" ","a","l","l","-","d","a","y">>
T_full_day == <<" ","f","u","l","l"," ","d","a","y">>
T_at_3pm == <<" ","a","t"," ","3","p","m">>
T_2_30pm == <<" ","2",":","3","0","p","m">>
T_at_14_00 == <<" ","a","t"," ","1","4",":","0","0">>
T_9_05 == <<" ","9",":","0","5">>
T_at_25_00 == <<" ","a","t"," ","2","5",":","0","0">>
T_11_30_pm == <<" ","1","1",":","3","0"," ","P","M">>
T_12am == <<" ","1","2","a","m">>
T_13pm == <<" ","1","3","p","m">>
T_10pm == <<"1","0","p","m">>
T_1am == <<"1","a","m">>
T_3pm == <<"3","p","m">>
T_9_00 == <<"9",":","0","0">>
T_10_30pm == <<"1","0",":","3","0","p","m">>
T_23_15 == <<"2","3",":","1","5">>
T_from_12pm_to_1_30pm == <<" ","f","r","o","m"," ","1","2","p","m"," ","t","o"," ","1",":","3","0","p","m">>
T_from_9_until_11_15 == <<" ","f","r","o","m"," ","9",":","0","0"," ","a","m"," ","u","n","t","i","l"," ","1","1",":","1","5"," ","a","m">>
T_1pm_till_12pm == <<" ","1","p","m"," ","t","i","l","l"," ","1","2","p","m">>
T_from_2pm_4pm == <<" ","f","r","o","m"," ","2","p","m","-","4","p","m">>
T_12_75_to_13_00 == <<" ","1","2",":","7","5"," ","t","o"," ","1","3",":","0","0">>
T_example_tomorrow == <<"S","c","h","e","d","u","l","e"," ","a"," ","m","e","e","t","i","n","g"," ","t","o","m","o","r","r","o","w"," ","a","t"," ","3","p","m">>
T_example_lunch == <<"A","d","d"," ","a"," ","t","e","a","m"," ","l","u","n","c","h"," ","n","e","x","t"," ","T","u","e","s","d","a","y"," ","f","r","o","m"," ","1","2","p","m"," ","t","o"," ","1",":","3","0","p","m">>
T_example_conference == <<"S","c","h","e","d","u","l","e"," ","a","n"," ","a","l","l","-","d","a","y"," ","c","o","n","f","e","r","e","n","c","e"," ","o","n"," ","A","u","g","u","s","t"," ","1","5">>
T_blank == <<" "," ">>
T_today_or_tomorrow == <<"M","e","e","t"," ","t","o","d","a","y"," ","o","r"," ","t","o","m","o","r","r","o","w">>
T_next_month_or_next_week == <<"M","e","e","t"," ","n","e","x","t"," ","m","o","n","t","h"," ","o","r"," ","n","e","x","t"," ","w","e","e","k">>
T_next_week_or_this_weekend == <<"M","e","e","t"," ","n","e","x","t"," ","w","e","e","k"," ","o","r"," ","t","h","i","s"," ","w","e","e","k","e","n","d">>
T_this_weekend_or_next_sunday == <<"M","e","e","t"," ","t","h","i","s"," ","w","e","e","k","e","n","d"," ","o","r"," ","n","e","x","t"," ","S","u","n","d","a","y">>
T_padded == <<" "," ","L","u","n","c","h"," ","T","o","d","a","y"," "," ">>
T_tomorrow_next_monday == <<"M","e","e","t"," ","t","o","m","o","r","r","o","w"," ","n","e","x","t"," ","m","o","n","d","a","y">>
T_next_friday_next_monday == <<"M","e","e","t"," ","n","e","x","t"," ","f","r","i","d","a","y"," ","n","e","x","t"," ","m","o","n","d","a","y">>
T_all_day_at_3pm == <<"M","e","e","t"," ","a","l","l"," ","d","a","y"," ","a","t"," ","3","p","m">>
T_full_day_10pm_to_1am == <<"M","e","e","t"," ","f","u","l","l","-","d","a","y"," ","1","0","p","m"," ","t","o"," ","1","a","m">>

DayPhrases ==
    {<<>>, T_tomorrow, T_today, T_day_after_tomorrow, T_next_tuesday_spaced,
     T_this_weekend, T_next_week, T_next_month, T_on_friday, T_on_august_15}
    \cup {<<" ">> \o K_next \o <<" ">> \o WeekdayNames[w] : w \in 1..7}

MarkerPhrases == {<<>>, T_all_day, T_full_day}

HourTimes == {T_10pm, T_1am, T_3pm}
MinuteTimes == {T_9_00, T_10_30pm, T_23_15}

TimePhrases ==
    {<<>>, T_at_3pm, T_2_30pm, T_at_14_00, T_9_05, T_at_25_00, T_11_30_pm,
     T_12am, T_13pm, T_from_12pm_to_1_30pm, T_from_9_until_11_15, T_1pm_till_12pm,
     T_from_2pm_4pm, T_12_75_to_13_00}
    \cup {<<" ">> \o a \o <<" ">> \o K_to \o <<" ">> \o b :
            a \in HourTimes, b \in HourTimes}
    \cup {<<" ">> \o a \o <<" ","-"," ">> \o b :
            a \in MinuteTimes, b \in MinuteTimes}

\* every day phrase alone, with a time and with a marker
DayTexts ==
    {T_meet \o d \o t : d \in DayPhrases, t \in {<<>>, T_at_3pm, T_all_day}}
    \cup {T_today_or_tomorrow, T_next_month_or_next_week,
          T_next_week_or_this_weekend, T_this_weekend_or_next_sunday}
    \cup {<<>>, T_blank, T_example_tomorrow, T_example_lunch,
          T_example_conference, T_padded, T_tomorrow_next_monday, T_next_friday_next_monday,
          T_all_day_at_3pm, T_full_day_10pm_to_1am}

\* every time phrase with and without a marker, after no day phrase, after a
\* day keyword and after a date
TimeTexts ==
    {T_meet \o d \o m \o t :
        d \in {<<>>, T_tomorrow, T_on_august_15}, m \in MarkerPhrases,
        t \in TimePhrases}

\* the clock is read at 09:00:00 on each day, and late on the last day
Nows == {Instant(d, 9, 0, 0, 0) : d \in 0..MaxNowDay}
LateNow == Instant(MaxNowDay, 23, 30, 15, 250)

\* 'next month' with and without a time, read at the end of a month before
\* a shorter one, in a leap and in a common year, and in December
MonthTexts == {T_meet \o T_next_month \o t : t \in {<<>>, T_at_3pm}}
MonthNows ==
    {Instant(ToOrdinal(2024, 1, 31), 22, 45, 10, 500),
     Instant(ToOrdinal(2024, 3, 31), 9, 0, 0, 0),
     Instant(ToOrdinal(2024, 12, 15), 9, 0, 0, 0),
     Instant(ToOrdinal(2024, 12, 31), 22, 45, 10, 500),
     Instant(ToOrdinal(2025, 1, 31), 9, 0, 0, 0)}

\* the calls: <<text, clock>>
Calls ==
    (DayTexts \X (Nows \cup {LateNow}))
    \cup (TimeTexts \X {Instant(0, 9, 0, 0, 0), LateNow})
    \cup (MonthTexts \X MonthNows)

(***************************************************************************)
(* The call, statement by statement.                                       *)
(***************************************************************************)
\* the verdicts the library may have on the text of a call
VerdictsOn(t) ==
    IF /\ HasClockDigits(t)
       /\ ~HasDayPhrase(Strip(Lower(t)))
       /\ ~IsIsoText(Strip(Lower(t)))
    THEN IF OffsetDigits(Lower(t)) # {} THEN Verdicts
         ELSE {"raises", "parses"}
    ELSE {"parses"}

Init ==
    /\ \E call \in Calls :
         /\ input = call[1]
         /\ clock = call[2]
         /\ library \in VerdictsOn(call[1])
    /\ pc = "call"
    /\ text = <<>>
    /\ now = <<>>
    /\ is_all_day = FALSE
    /\ base_date = <<>>
    /\ time_found = FALSE
    /\ end_datetime = <<>>
    /\ result = <<>>
    /\ previous = <<>>
    /\ parked = <<>>
    /\ RestIdle

\* lines 15-21: normalise the text, read the clock, look for the marker
Enter ==
    /\ pc = "call"
    /\ text' = Strip(Lower(input))
    /\ now' = <<clock>>
    /\ is_all_day' = HasAllDayMarker(text')
    /\ pc' = "day"
    /\ UNCHANGED <<input, clock, base_date, time_found, end_datetime, result,
                   library, previous, parked, rest>>

\* lines 23-78: day/date detection
ResolveDay ==
    /\ pc = "day"
    /\ \E b \in DayCandidates(text, now[1], library) : base_date' = <<b>>
    /\ pc' = "range"
    /\ UNCHANGED <<input, clock, text, now, is_all_day, time_found,
                   end_datetime, result, library, previous, parked, rest>>

\* lines 81-152: the time-range patterns
MatchRange ==
    /\ pc = "range"
    /\ \E match \in {FirstRangeMatch(text)} :
         IF ~match.ok
         THEN /\ pc' = "single"
              /\ UNCHANGED <<base_date, time_found, end_datetime>>
         ELSE \E c \in {RangeClock(match.groups)} :
                IF /\ ValidClock(c.start_hour, c.start_minute)
                   /\ ValidClock(c.end_hour, c.end_minute)
                THEN \E b \in {ReplaceClock(base_date[1], c.start_hour,
                                            c.start_minute)} :
                       /\ base_date' = <<b>>
                       /\ end_datetime' =
                            <<RangeEnd(b, c.end_hour, c.end_minute)>>
                       /\ time_found' = TRUE
                       /\ pc' = "single"
                ELSE \* ValueError from datetime.replace
                     /\ pc' = "raised"
                     /\ time_found' = TRUE
                     /\ UNCHANGED <<base_date, end_datetime>>
    /\ UNCHANGED <<input, clock, text, now, is_all_day, result, library,
                   previous, parked, rest>>

\* MatchSingle without the test of time_found
MatchSingleAlways ==
    /\ pc = "single"
    /\ \E match \in {FirstTimeMatch(text)} :
         IF ~match.ok
         THEN /\ pc' = "infer"
              /\ UNCHANGED <<base_date, time_found, end_datetime>>
         ELSE \E c \in {TimeClock(match.groups)} :
                IF ValidClock(c.hour, c.minute)
                THEN \E b \in {ReplaceClock(base_date[1], c.hour, c.minute)} :
                       /\ base_date' = <<b>>
                       /\ end_datetime' = <<DefaultEnd(b)>>
                       /\ time_found' = TRUE
                       /\ pc' = "infer"
                ELSE /\ pc' = "raised"
                     /\ time_found' = TRUE
                     /\ UNCHANGED <<base_date, end_datetime>>
    /\ UNCHANGED <<input, clock, text, now, is_all_day, result, library,
                   previous, parked, rest>>

\* lines 154-198: the single-time patterns
MatchSingle ==
    /\ pc = "single"
    /\ IF time_found
       THEN /\ pc' = "infer"
            /\ UNCHANGED <<base_date, time_found, end_datetime>>
       ELSE \E match \in {FirstTimeMatch(text)} :
              IF ~match.ok
              THEN /\ pc' = "infer"
                   /\ UNCHANGED <<base_date, time_found, end_datetime>>
              ELSE \E c \in {TimeClock(match.groups)} :
                     IF ValidClock(c.hour, c.minute)
                     THEN \E b \in {ReplaceClock(base_date[1], c.hour,
                                                 c.minute)} :
                            /\ base_date' = <<b>>
                            /\ end_datetime' = <<DefaultEnd(b)>>
                            /\ time_found' = TRUE
                            /\ pc' = "infer"
                     ELSE \* ValueError from datetime.replace
                          /\ pc' = "raised"
                          /\ time_found' = TRUE
                          /\ UNCHANGED <<base_date, end_datetime>>
    /\ UNCHANGED <<input, clock, text, now, is_all_day, result, library,
                   previous, parked, rest>>

\* lines 200-211: a day keyword and no time make the event all-day
InferAllDay ==
    /\ pc = "infer"
    /\ IF ~time_found /\ ~is_all_day /\ HasDayKeyword(text)
       THEN /\ is_all_day' = TRUE
            /\ base_date' = <<ReplaceClock(base_date[1], 0, 0)>>
            /\ end_datetime' = <<>>
       ELSE UNCHANGED <<is_all_day, base_date, end_datetime>>
    /\ pc' = "build"
    /\ UNCHANGED <<input, clock, text, now, time_found, result, library,
                   previous, parked, rest>>

\* lines 213-226: build and return the result
Return ==
    /\ pc = "build"
    /\ result' = <<BuildResult(is_all_day, base_date[1], end_datetime)>>
    /\ pc' = "done"
    /\ UNCHANGED <<input, clock, text, now, is_all_day, base_date, time_found,
                   end_datetime, library, previous, parked, rest>>

Next == Enter \/ ResolveDay \/ MatchRange \/ MatchSingle \/ InferAllDay
        \/ Return

Spec == Init /\ [][Next]_vars

\* the texts of a second call: the same text, and for a Timed result the
\* ISO 8601 string of its start
SecondInputs ==
    {input} \cup (IF result[1].is_all_day THEN {}
                  ELSE {IsoFormat(result[1].start_datetime[1])})

\* the caller calls again, and the call reads the same instant from the clock
CallAgain ==
    /\ pc = "done"
    /\ previous = <<>>
    /\ previous' = <<[input |-> input, result |-> result[1]]>>
    /\ input' \in SecondInputs
    /\ pc' = "call"
    /\ text' = <<>>
    /\ now' = <<>>
    /\ is_all_day' = FALSE
    /\ base_date' = <<>>
    /\ time_found' = FALSE
    /\ end_datetime' = <<>>
    /\ result' = <<>>
    /\ UNCHANGED <<clock, library, parked, rest>>

NextTwice == Next \/ CallAgain

\* two calls, one after the other
SpecTwice == Init /\ [][NextTwice]_vars

\* the frame of the running call: its arguments, its locals and its position
RunningFrame ==
    [input |-> input, clock |-> clock, pc |-> pc, text |-> text, now |-> now,
     is_all_day |-> is_all_day, base_date |-> base_date,
     time_found |-> time_found, end_datetime |-> end_datetime,
     result |-> result, library |-> library]

\* the frame of a call that has not started
NewFrame(call, verdict) ==
    [input |-> call[1], clock |-> call[2], pc |-> "call", text |-> <<>>,
     now |-> <<>>, is_all_day |-> FALSE, base_date |-> <<>>,
     time_found |-> FALSE, end_datetime |-> <<>>, result |-> <<>>,
     library |-> verdict]

\* Resume for locals that are module globals: the call that resumes finds
\* time_found and end_datetime as the other call left them
ResumeSharedEnd(saved, running) ==
    [saved EXCEPT !.time_found = running.time_found,
                  !.end_datetime = running.end_datetime]

\* the frame a suspended call resumes with: every name the function assigns
\* is a local of its own frame
Resume(saved, running) == saved

\* the calls that run concurrently
ConcurrentTexts ==
    {T_example_tomorrow, T_full_day_10pm_to_1am, T_meet \o T_this_weekend,
     T_meet \o T_at_25_00}
ConcurrentCalls == ConcurrentTexts \X {Instant(0, 9, 0, 0, 0), LateNow}

InitConcurrent ==
    /\ \E call \in ConcurrentCalls, other \in ConcurrentCalls :
         /\ input = call[1]
         /\ clock = call[2]
         /\ library \in VerdictsOn(call[1])
         /\ \E verdict \in VerdictsOn(other[1]) :
              parked = <<NewFrame(other, verdict)>>
    /\ pc = "call"
    /\ text = <<>>
    /\ now = <<>>
    /\ is_all_day = FALSE
    /\ base_date = <<>>
    /\ time_found = FALSE
    /\ end_datetime = <<>>
    /\ result = <<>>
    /\ previous = <<>>
    /\ RestIdle

\* the running call is suspended and the other call resumes
Switch ==
    /\ parked # <<>>
    /\ parked' = <<RunningFrame>>
    /\ \E f \in {Resume(parked[1], RunningFrame)} :
         /\ input' = f.input
         /\ clock' = f.clock
         /\ pc' = f.pc
         /\ text' = f.text
         /\ now' = f.now
         /\ is_all_day' = f.is_all_day
         /\ base_date' = f.base_date
         /\ time_found' = f.time_found
         /\ end_datetime' = f.end_datetime
         /\ result' = f.result
         /\ library' = f.library
    /\ UNCHANGED <<previous, rest>>

NextConcurrent == Next \/ Switch

\* two calls in two threads, interleaved statement by statement
SpecConcurrent == InitConcurrent /\ [][NextConcurrent]_vars

(***************************************************************************)
(* Properties.                                                             *)
(***************************************************************************)
\* the time of day of an instant
ClockFields(dt) == <<dt.hour, dt.minute, dt.second, dt.microsecond>>

\* an instant one hour after s, computed from the calendar
OneHourAfter(s) ==
    IF s.hour = 23 THEN [s EXCEPT !.day = @ + 1, !.hour = 0]
    ELSE [s EXCEPT !.hour = @ + 1]

\* the result is Timed and carries an end
TimedWithEnd ==
    /\ pc = "done"
    /\ ~result[1].is_all_day
    /\ result[1].start_datetime # <<>>
    /\ result[1].end_datetime # <<>>

\* the text matches a range pattern whose start and end clock times are equal
EqualRange(t) ==
    /\ FirstRangeMatch(t).ok
    /\ LET c == RangeClock(FirstRangeMatch(t).groups)
       IN  c.start_hour = c.end_hour /\ c.start_minute = c.end_minute

\* C1: the call never raises, whatever the text: stated as "the call is never
\* left by an exception".
C1_NeverRaises == pc # "raised"

\* C2 as claimed: in every Timed result that carries an end, the end is
\* strictly later than the start.
C2_EndStrictlyAfterStart ==
    TimedWithEnd =>
        Before(result[1].start_datetime[1], result[1].end_datetime[1])

\* C2 as amended: in every Timed result that carries an end, the end is not
\* earlier than the start: it equals the start when a range with equal start
\* and end clock times matched, and is strictly later in every other case.
C2_EndNotBeforeStart ==
    TimedWithEnd =>
        LET s == result[1].start_datetime[1]
            e == result[1].end_datetime[1]
        IN  IF EqualRange(text) THEN e = s ELSE Before(s, e)

C2_Witness ==
    /\ TimedWithEnd
    /\ result[1].end_datetime = result[1].start_datetime

\* C3: when the text has an explicit all-day marker, the all-day flag is set
\* at every later point of the call (no stage clears it) and the result is
\* all-day, whatever time or time range the text also contains.
C3_AllDayMarkerWins ==
    (pc # "call" /\ HasAllDayMarker(text)) =>
        /\ is_all_day
        /\ pc = "done" =>
             /\ result[1].is_all_day
             /\ result[1].start_date # <<>>
             /\ result[1].start_datetime = <<>>

C3_Witness ==
    /\ pc = "done"
    /\ HasAllDayMarker(text)
    /\ FirstRangeMatch(text).ok
    /\ result[1].is_all_day

\* C4: for every text containing 'day after tomorrow', day resolution yields
\* now + 2 days.
C4_DayAfterTomorrow ==
    (pc = "range" /\ Contains(text, K_day_after_tomorrow)) =>
        base_date[1] = AddDays(now[1], 2)

\* the 'next <weekday>' rule for weekday w decides the day: the text has
\* 'next <w>' and no phrase of an earlier rule
NextWeekdayDecides(t, w) ==
    /\ HasWords(t, K_next, WeekdayNames[w + 1])
    /\ ~Contains(t, K_tomorrow)
    /\ ~Contains(t, K_today)
    /\ \A v \in 0..(w - 1) : ~HasWords(t, K_next, WeekdayNames[v + 1])

\* C5: when 'next <W>' decides the day, the day is now + k days with
\* k = (W - weekday(now)) mod 7, replaced by 7 when that is 0: k is in 1..7,
\* the day is a W strictly after today, and 7 days ahead on a W.
C5_NextWeekday ==
    \A w \in 0..6 :
        (pc = "range" /\ NextWeekdayDecides(text, w)) =>
            LET today == Weekday(now[1].day)
                m == (7 + w - today) % 7
                k == IF m = 0 THEN 7 ELSE m
            IN  /\ base_date[1] = AddDays(now[1], k)
                /\ k \in 1..7
                /\ Weekday(base_date[1].day) = w
                /\ base_date[1].day > now[1].day
                /\ today = w => base_date[1].day = now[1].day + 7

C5_Witness ==
    /\ pc = "range"
    /\ NextWeekdayDecides(text, 0)
    /\ Weekday(now[1].day) = 0
    /\ base_date[1].day = now[1].day + 7

\* C6 as claimed: on a Monday, 'next tuesday' resolves to the date 8 days
\* after the reference date (2024-01-01 gives 2024-01-09).
C6_NextTuesdayEightDays ==
    (pc = "range" /\ NextWeekdayDecides(text, 1) /\ Weekday(now[1].day) = 0) =>
        /\ base_date[1].day = now[1].day + 8
        /\ DateOf(now[1].day) = [year |-> 2024, month |-> 1, day |-> 1] =>
             DateOf(base_date[1].day) = [year |-> 2024, month |-> 1, day |-> 9]

\* C6 as amended: on a Monday, 'next tuesday' resolves to the date 1 day
\* after the reference date (2024-01-01 gives 2024-01-02).
C6_NextTuesdayOneDay ==
    (pc = "range" /\ NextWeekdayDecides(text, 1) /\ Weekday(now[1].day) = 0) =>
        /\ base_date[1].day = now[1].day + 1
        /\ DateOf(now[1].day) = [year |-> 2024, month |-> 1, day |-> 1] =>
             DateOf(base_date[1].day) = [year |-> 2024, month |-> 1, day |-> 2]

C6_Witness ==
    /\ pc = "range"
    /\ input = T_example_lunch
    /\ DateOf(now[1].day) = [year |-> 2024, month |-> 1, day |-> 1]
    /\ DateOf(base_date[1].day) = [year |-> 2024, month |-> 1, day |-> 2]

\* C7: 'from 12pm to 1:30pm' is resolved as a range: the result is Timed with
\* start at 12:00:00 and end at 13:30:00 on the same date.
C7_MixedRange ==
    (pc = "done" /\ Contains(text, T_from_12pm_to_1_30pm)
       /\ ~HasAllDayMarker(text)) =>
        /\ TimedWithEnd
        /\ ClockFields(result[1].start_datetime[1]) = <<12, 0, 0, 0>>
        /\ ClockFields(result[1].end_datetime[1]) = <<13, 30, 0, 0>>
        /\ result[1].end_datetime[1].day = result[1].start_datetime[1].day

\* no range pattern matches and a single-time pattern does
SingleTimeOnly(t) == ~FirstRangeMatch(t).ok /\ FirstTimeMatch(t).ok

\* the result of the call is Timed, with the start and the end of the locals,
\* the start at the clock time of the single-time match and the end one hour
\* after the start
SingleTimeResult ==
    LET c == TimeClock(FirstTimeMatch(text).groups)
        r == result[1]
    IN  /\ ~r.is_all_day
        /\ r.start_datetime = base_date
        /\ r.end_datetime = end_datetime
        /\ ClockFields(r.start_datetime[1]) = <<c.hour, c.minute, 0, 0>>
        /\ r.end_datetime = <<OneHourAfter(r.start_datetime[1])>>

C8_Example ==
    (input = T_example_tomorrow /\ clock = Instant(0, 9, 0, 0, 0)) =>
        /\ DateOf(clock.day) = [year |-> 2024, month |-> 1, day |-> 1]
        /\ result[1].start_datetime = <<Instant(1, 15, 0, 0, 0)>>
        /\ result[1].end_datetime = <<Instant(1, 16, 0, 0, 0)>>
        /\ DateOf(1) = [year |-> 2024, month |-> 1, day |-> 2]

SingleTimeKeepsDate ==
    (pc = "single" /\ pc' = "infer" /\ ~time_found /\ time_found') =>
        base_date'[1].day = base_date[1].day

RangePlaced(s, e, t) ==
    LET c == RangeClock(FirstRangeMatch(t).groups)
        earlier == \/ c.end_hour < c.start_hour
                   \/ c.end_hour = c.start_hour /\ c.end_minute < c.start_minute
    IN  /\ ClockFields(s) = <<c.start_hour, c.start_minute, 0, 0>>
        /\ ClockFields(e) = <<c.end_hour, c.end_minute, 0, 0>>
        /\ e.day = IF earlier THEN s.day + 1 ELSE s.day

T_10pm_to_1am == T_10pm \o <<" ">> \o K_to \o <<" ">> \o T_1am

\* C9: for every matched range the end is on the date of the start when the
\* end clock time is not earlier than the start clock time and exactly one
\* day later when it is; '10pm to 1am' gives 22:00 and 01:00 the day after.
C9_RangeEndDate ==
    /\ (pc = "single" /\ time_found) =>
          /\ RangePlaced(base_date[1], end_datetime[1], text)
          /\ Contains(text, T_10pm_to_1am) =>
               /\ ClockFields(base_date[1]) = <<22, 0, 0, 0>>
               /\ end_datetime[1] = Instant(base_date[1].day + 1, 1, 0, 0, 0)
    /\ (pc = "done" /\ FirstRangeMatch(text).ok /\ ~result[1].is_all_day) =>
          /\ result[1].end_datetime # <<>>
          /\ RangePlaced(result[1].start_datetime[1],
                         result[1].end_datetime[1], text)

C9_Witness ==
    /\ TimedWithEnd
    /\ Contains(text, T_10pm_to_1am)
    /\ ClockFields(result[1].start_datetime[1]) = <<22, 0, 0, 0>>
    /\ ClockFields(result[1].end_datetime[1]) = <<1, 0, 0, 0>>
    /\ result[1].end_datetime[1].day = result[1].start_datetime[1].day + 1

\* C10: every result returned has success = true and exactly one shape:
\* all-day with start_date and neither start_datetime nor end_datetime, or
\* not all-day with start_datetime (end_datetime optional) and no start_date.
C10_ResultShape ==
    /\ result # <<>> <=> pc = "done"
    /\ pc = "done" =>
         LET r == result[1]
         IN  /\ r.success
             /\ \/ /\ r.is_all_day
                   /\ Len(r.start_date) = 1
                   /\ r.start_datetime = <<>>
                   /\ r.end_datetime = <<>>
                \/ /\ ~r.is_all_day
                   /\ Len(r.start_datetime) = 1
                   /\ Len(r.end_datetime) <= 1
                   /\ r.start_date = <<>>

C10_Witness ==
    /\ pc = "done"
    /\ result[1].is_all_day
    /\ end_datetime # <<>>
    /\ result[1].end_datetime = <<>>

\* the text has no time range, no single time and no all-day marker
NoTimeNoMarker(t) ==
    /\ ~FirstRangeMatch(t).ok
    /\ ~FirstTimeMatch(t).ok
    /\ ~HasAllDayMarker(t)

\* the text contains tomorrow, today, a weekday name, next week or weekend
NamesADay(t) ==
    \E k \in {K_tomorrow, K_today, K_next_week, K_weekend}
                \cup Range(WeekdayNames) :
        Contains(t, k)

\* the result of a text without time and marker: all-day on the date of
\* base_date when the text names a day, else Timed from base_date without end
NoTimeResult ==
    (pc = "done" /\ NoTimeNoMarker(text)) =>
        IF NamesADay(text)
        THEN /\ result[1].is_all_day
             /\ result[1].start_date = <<base_date[1].day>>
             /\ result[1].start_datetime = <<>>
             /\ result[1].end_datetime = <<>>
             /\ Contains(text, K_tomorrow) =>
                    result[1].start_date = <<now[1].day + 1>>
        ELSE /\ ~result[1].is_all_day
             /\ result[1].start_date = <<>>
             /\ result[1].start_datetime = base_date
             /\ result[1].end_datetime = <<>>

\* after day resolution a text without time and marker keeps the date of
\* base_date, and keeps base_date when it names no day
NoTimeKeepsDay ==
    (pc \in {"range", "single", "infer", "build"} /\ NoTimeNoMarker(text)) =>
        /\ base_date'[1].day = base_date[1].day
        /\ ~NamesADay(text) => base_date' = base_date

\* C11: when no time range and no single time matches and the text has no
\* all-day marker, the result is all-day exactly when the text contains a day
\* keyword; it then carries the day-resolved date and no end (the day after
\* now for a text containing 'tomorrow'); otherwise it is Timed, starts at the
\* day-resolved instant and has no end.
C11_NoTimeInference == [](NoTimeResult) /\ [][NoTimeKeepsDay]_vars

C11_Witness ==
    /\ pc = "done"
    /\ NoTimeNoMarker(text)
    /\ Contains(text, K_weekend)
    /\ result[1].is_all_day
    /\ result[1].start_date = <<now[1].day + WeekendDaysAhead(Weekday(now[1].day))>>

\* the date a result carries: start_date, or the date of start_datetime
ResultDay(r) ==
    IF r.is_all_day THEN r.start_date[1] ELSE r.start_datetime[1].day

\* the time phases and the all-day inference keep the date of base_date
TimeKeepsDay ==
    pc \in {"range", "single", "infer", "build"} =>
        base_date'[1].day = base_date[1].day

\* C12: time resolution changes only the time of day: the date of the result
\* is the date day resolution chose, whatever times the text contains; in
\* particular a text with an all-day marker and the date August 15 gives an
\* all-day result dated August 15 of the year of now.
C12_DateFrame ==
    pc = "done" =>
        /\ ResultDay(result[1]) = base_date[1].day
        /\ (/\ HasAllDayMarker(text)
            /\ Contains(text, K_august_15)
            /\ ~HasDayPhrase(text)) =>
                /\ result[1].is_all_day
                /\ result[1].start_date =
                     <<ToOrdinal(DateOf(now[1].day).year, 8, 15)>>

\* C13: when no day phrase matches and the fuzzy parse raises, the base
\* instant is now unchanged; the empty text therefore gives a Timed result
\* that starts exactly at now, clock fields included, and has no end.
C13_FuzzyFailureKeepsNow ==
    /\ (/\ pc = "range"
        /\ ~HasDayPhrase(text)
        /\ FuzzyParse(text, now[1].day, library) = <<>>) => base_date = now
    /\ (pc = "done" /\ text = <<>>) =>
          /\ ~result[1].is_all_day
          /\ result[1].start_date = <<>>
          /\ result[1].start_datetime = <<clock>>
          /\ result[1].end_datetime = <<>>

C13_Witness ==
    /\ pc = "done"
    /\ input = <<>>
    /\ clock.second # 0
    /\ clock.microsecond # 0
    /\ result[1].start_datetime = <<clock>>

\* the call is the second one and has the text of the first
Repeated ==
    /\ previous # <<>>
    /\ input = previous[1].input

\* C14: the result is determined by the text and the reference instant: two
\* calls with equal text and equal reference instant return equal results,
\* whatever the clock shows later.
C14_SameInputsSameResult ==
    (pc = "done" /\ Repeated) => result[1] = previous[1].result

\* the call is the second one and its text is the ISO 8601 string of the
\* start of the Timed result of the first
FedBack ==
    /\ previous # <<>>
    /\ ~previous[1].result.is_all_day
    /\ input = IsoFormat(previous[1].result.start_datetime[1])

\* two instants are equal to the minute
SameMinute(a, b) ==
    a.day = b.day /\ a.hour = b.hour /\ a.minute = b.minute

\* C16: round trip: the ISO 8601 string of the start of a Timed result, fed
\* back into the extractor, matches no day phrase and gives a Timed result
\* whose start equals the original start to the minute.
C16_IsoRoundTrip ==
    (FedBack /\ pc \in {"range", "single", "infer", "build", "done", "raised"}) =>
        /\ ~HasDayPhrase(text)
        /\ pc # "raised"
        /\ pc = "done" =>
            /\ ~result[1].is_all_day
            /\ SameMinute(result[1].start_datetime[1],
                          previous[1].result.start_datetime[1])

\* what the call returns from the base instant b when nothing interrupts it:
\* <<result>>, or <<>> when it raises
AloneFrom(t, b) ==
    LET range == FirstRangeMatch(t)
        single == FirstTimeMatch(t)
    IN  IF range.ok
        THEN LET c == RangeClock(range.groups)
                 s == ReplaceClock(b, c.start_hour, c.start_minute)
             IN  IF /\ ValidClock(c.start_hour, c.start_minute)
                    /\ ValidClock(c.end_hour, c.end_minute)
                 THEN <<BuildResult(HasAllDayMarker(t), s,
                                    <<RangeEnd(s, c.end_hour, c.end_minute)>>)>>
                 ELSE <<>>
        ELSE IF single.ok
        THEN LET c == TimeClock(single.groups)
                 s == ReplaceClock(b, c.hour, c.minute)
             IN  IF ValidClock(c.hour, c.minute)
                 THEN <<BuildResult(HasAllDayMarker(t), s, <<DefaultEnd(s)>>)>>
                 ELSE <<>>
        ELSE IF ~HasAllDayMarker(t) /\ HasDayKeyword(t)
        THEN <<BuildResult(TRUE, ReplaceClock(b, 0, 0), <<>>)>>
        ELSE <<BuildResult(HasAllDayMarker(t), b, <<>>)>>

\* the outcomes of a call that runs alone
AloneOutcomes(in, clk, verdict) ==
    {AloneFrom(Strip(Lower(in)), b) :
        b \in DayCandidates(Strip(Lower(in)), clk, verdict)}

\* a call that has ended has an outcome it has when it runs alone
EndsAsAlone(f) ==
    /\ f.pc = "done" => f.result \in AloneOutcomes(f.input, f.clock, f.library)
    /\ f.pc = "raised" => <<>> \in AloneOutcomes(f.input, f.clock, f.library)

\* C15: concurrent calls share no mutable state: under every interleaving
\* each call returns what it returns when it runs alone with the same text
\* and reference instant.
C15_NoInterference ==
    /\ EndsAsAlone(RunningFrame)
    /\ parked # <<>> => EndsAsAlone(parked[1])

C15_Witness ==
    /\ parked # <<>>
    /\ pc = "done"
    /\ parked[1].pc = "done"
    /\ time_found
    /\ ~parked[1].time_found
    /\ result[1].end_datetime # <<>>
    /\ parked[1].result[1].end_datetime = <<>>

\* 'this weekend' decides the date of t: no earlier day phrase is in t
WeekendDecides(t) ==
    /\ HasWords(t, K_this, K_weekend)
    /\ ~Contains(t, K_tomorrow)
    /\ ~Contains(t, K_today)
    /\ NextWeekdaysIn(t) = {}

\* C17: for every weekday of now, a text decided by 'this weekend' resolves
\* to now + ((5 - weekday(now)) mod 7) days, without a correction of zero:
\* today on a Saturday, else the first Saturday after today, which is 6 days
\* ahead on a Sunday.
C17_ThisWeekend ==
    (pc = "range" /\ WeekendDecides(text)) =>
        /\ base_date[1].day - now[1].day = (5 - Weekday(now[1].day)) % 7
        /\ ClockFields(base_date[1]) = ClockFields(now[1])
        /\ Weekday(base_date[1].day) = 5
        /\ base_date[1].day - now[1].day \in 0..6
        /\ Weekday(now[1].day) = 5 => base_date = now
        /\ Weekday(now[1].day) = 6 => base_date[1].day = now[1].day + 6

C17_Witness ==
    /\ pc = "range"
    /\ WeekendDecides(text)
    /\ Weekday(now[1].day) = 5
    /\ base_date = now

\* 'next month' decides the date of t: no earlier day phrase is in t
NextMonthDecides(t) ==
    /\ Contains(t, K_next_month)
    /\ ~Contains(t, K_tomorrow)
    /\ ~Contains(t, K_today)
    /\ NextWeekdaysIn(t) = {}
    /\ ~HasWords(t, K_this, K_weekend)
    /\ ~Contains(t, K_next_week)

\* the date b lies in the month after that of the date d, on the day of the
\* month of d, or on the last day of the month when it has no such day
InMonthAfter(d, b) ==
    /\ b.year = (IF d.month = 12 THEN d.year + 1 ELSE d.year)
    /\ b.month = (IF d.month = 12 THEN 1 ELSE d.month + 1)
    /\ b.day = (IF d.day <= DaysInMonth(b.year, b.month) THEN d.day
                ELSE DaysInMonth(b.year, b.month))

\* C18: a text decided by the 'next month' rule resolves to a date in the
\* calendar month after that of now (January of the next year after
\* December), on now's day of the month when the month has that day and on
\* its last day otherwise; the clock fields are those of now.
C18_NextMonth ==
    (pc = "range" /\ NextMonthDecides(text)) =>
        /\ InMonthAfter(DateOf(now[1].day), DateOf(base_date[1].day))
        /\ ClockFields(base_date[1]) = ClockFields(now[1])

C18_Witness ==
    /\ pc = "range"
    /\ NextMonthDecides(text)
    /\ DateOf(now[1].day) = [year |-> 2024, month |-> 1, day |-> 31]
    /\ DateOf(base_date[1].day) = [year |-> 2024, month |-> 2, day |-> 29]
    /\ base_date[1].microsecond = now[1].microsecond

\* once the range phase has run on a text with a range, the start and the
\* end are those of the first range pattern that matches
RangeDecides ==
    (pc \in {"single", "infer", "build"} /\ FirstRangeMatch(text).ok) =>
        /\ time_found
        /\ RangePlaced(base_date[1], end_datetime[1], text)

\* the single-time phase leaves the start and the end of a range alone
SingleSkipsAfterRange ==
    (pc = "single" /\ FirstRangeMatch(text).ok) =>
        /\ pc' = "infer"
        /\ UNCHANGED <<base_date, end_datetime, time_found>>

\* C19: the time-range phase runs before the single-time phase and
\* short-circuits it: when a range pattern matches, the start and the end come
\* from the first range pattern that matches, no single-time pattern is
\* consulted and the default end of start + 1 hour is not applied.
C19_RangeShortCircuits == [](RangeDecides) /\ [][SingleSkipsAfterRange]_vars

C19_Witness ==
    /\ pc = "infer"
    /\ FirstRangeMatch(text).ok
    /\ FirstTimeMatch(text).ok
    /\ time_found
    /\ Before(OneHourAfter(base_date[1]), end_datetime[1])

\* the hours a match normalises: the digits, the meridiem (<<>> when the
\* match has none) and the normalised hour
RangeHours(groups) ==
    IF Len(groups) = 6
    THEN {<<IntOf(groups[1]), groups[3], RangeClock(groups).start_hour>>,
          <<IntOf(groups[4]), groups[6], RangeClock(groups).end_hour>>}
    ELSE {<<IntOf(groups[1]), groups[2], RangeClock(groups).start_hour>>,
          <<IntOf(groups[3]), groups[4], RangeClock(groups).end_hour>>}
TimeHours(groups) ==
    IF Len(groups) = 3
    THEN {<<IntOf(groups[1]), groups[3], TimeClock(groups).hour>>}
    ELSE IF groups[2] \in {K_am, K_pm}
    THEN {<<IntOf(groups[1]), groups[2], TimeClock(groups).hour>>}
    ELSE {<<IntOf(groups[1]), <<>>, TimeClock(groups).hour>>}
MatchedHours(t) ==
    IF FirstRangeMatch(t).ok THEN RangeHours(FirstRangeMatch(t).groups)
    ELSE IF FirstTimeMatch(t).ok THEN TimeHours(FirstTimeMatch(t).groups)
    ELSE {}

\* the 12-hour to 24-hour conversion of the hours 1..12, and the digits
\* themselves without a meridiem
ConvertedHour(h) ==
    /\ (h[2] = K_pm /\ h[1] \in 1..12) =>
            h[3] = (IF h[1] = 12 THEN 12 ELSE h[1] + 12)
    /\ (h[2] = K_am /\ h[1] \in 1..12) =>
            h[3] = (IF h[1] = 12 THEN 0 ELSE h[1])
    /\ h[2] = <<>> => h[3] = h[1]

\* C20: hour normalisation is the 12-hour to 24-hour conversion for every
\* hour 1..12 with a meridiem, is applied to the start and the end of a range
\* each with its own meridiem, leaves the digits unchanged without a
\* meridiem, and always gives an hour in 0..23.
C20_HourNormalisation ==
    pc = "range" =>
        \A h \in MatchedHours(text) : ConvertedHour(h) /\ h[3] \in 0..23

\* the day phrases of t, by their place in the order tomorrow (1), today (2),
\* next monday (3) ... next sunday (9), this weekend (10), next week (11),
\* next month (12)
PhrasesIn(t) ==
    (IF Contains(t, K_tomorrow) THEN {1} ELSE {})
    \cup (IF Contains(t, K_today) THEN {2} ELSE {})
    \cup {3 + w : w \in NextWeekdaysIn(t)}
    \cup (IF HasWords(t, K_this, K_weekend) THEN {10} ELSE {})
    \cup (IF Contains(t, K_next_week) THEN {11} ELSE {})
    \cup (IF Contains(t, K_next_month) THEN {12} ELSE {})

\* the instant b is what the phrase at place r of the order makes of n
PhraseGives(r, n, b) ==
    /\ ClockFields(b) = ClockFields(n)
    /\ b.offset = n.offset
    /\ CASE r = 1 -> b.day = n.day + 1
         [] r = 2 -> b.day = n.day
         [] r \in 3..9 -> /\ b.day - n.day \in 1..7
                          /\ Weekday(b.day) = r - 3
         [] r = 10 -> /\ b.day - n.day \in 0..6
                      /\ Weekday(b.day) = 5
         [] r = 11 -> b.day = n.day + 7
         [] r = 12 -> InMonthAfter(DateOf(n.day), DateOf(b.day))

\* C21: when the text has more than one day phrase, the one that comes first
\* in the order tomorrow, today, next monday ... next sunday, this weekend,
\* next week, next month alone decides the base date; the fuzzy parse is
\* tried only when the text has none of them.
C21_FirstPhraseDecides ==
    (pc = "range" /\ PhrasesIn(text) # {}) =>
        PhraseGives(Min(PhrasesIn(text)), now[1], base_date[1])

C21_Witness ==
    /\ pc = "range"
    /\ Contains(text, K_today)
    /\ Contains(text, K_tomorrow)
    /\ base_date[1] = AddDays(now[1], 1)


(***************************************************************************)
(* create_event_from_conversation and its fallback create_event_manual_parse *)
(***************************************************************************)

\* conv.pc       position of the call: "service", "quickAdd", "fallback"
\*               (the date/time parser is running), "returned", "none"
\* conv.text     local text: conversation_text.strip()
\* conv.quickAdd what quickAdd(...).execute() did: "none" before it is called,
\*               "created", "400" (HttpError with status 400), "other"
\*               (HttpError with another status), "failed" (another exception)
\* conv.calls    the requests made to the calendar, in order
\* conv.events   the events this call created in the calendar, in order
\* conv.failure  <<>>, or the statement that raised: "service", "quickAdd",
\*               "parser", "insert"
\* conv.reply    <<>> until the call returns, then <<dict>>; conv.pc is
\*               "raised" when the call ended with an exception instead

\* date.strftime('%Y-%m-%d') of the date n days after 2024-01-01
DateFormat(n) ==
    Digits(DateOf(n).year, 4) \o <<"-">> \o Digits(DateOf(n).month, 2)
        \o <<"-">> \o Digits(DateOf(n).day, 2)

\* a 'start' or 'end' dictionary with no key
NoKeys == [date |-> <<>>, dateTime |-> <<>>, timeZone |-> <<>>]

\* AllDayBody with an end on the day of the start
AllDayBodySameDay(start_date) ==
    [start |-> [NoKeys EXCEPT !.date = <<DateFormat(start_date)>>],
     end |-> [NoKeys EXCEPT !.date = <<DateFormat(start_date)>>]]

\* the body of the all-day event: start_date and start_date + timedelta(days=1)
AllDayBody(start_date) ==
    [start |-> [NoKeys EXCEPT !.date = <<DateFormat(start_date)>>],
     end |-> [NoKeys EXCEPT !.date = <<DateFormat(start_date + 1)>>]]

\* TimedEnd that defaults to the start
TimedEndAtStart(datetime_result) ==
    IF datetime_result.end_datetime # <<>>
    THEN datetime_result.end_datetime[1]
    ELSE datetime_result.start_datetime[1]

\* end_time: the parser's end_datetime when the key is in the result, else
\* start_time + timedelta(hours=1)
TimedEnd(datetime_result) ==
    IF datetime_result.end_datetime # <<>>
    THEN datetime_result.end_datetime[1]
    ELSE AddHours(datetime_result.start_datetime[1], 1)

\* the body of the timed event
TimedBody(datetime_result) ==
    [start |-> [NoKeys EXCEPT
                  !.dateTime = <<IsoFormat(datetime_result.start_datetime[1])>>,
                  !.timeZone = <<"UTC">>],
     end |-> [NoKeys EXCEPT
                  !.dateTime = <<IsoFormat(TimedEnd(datetime_result))>>,
                  !.timeZone = <<"UTC">>]]

\* the body create_event_manual_parse hands to events().insert (the summary
\* and the description are left out: no property here reads them)
EventBody(datetime_result) ==
    IF datetime_result.is_all_day
    THEN AllDayBody(datetime_result.start_date[1])
    ELSE TimedBody(datetime_result)

\* the dictionaries a call returns
Succeeded == [success |-> TRUE, error |-> <<>>]
Failed(error) == [success |-> FALSE, error |-> <<error>>]

\* RunsFallback for every HttpError
RunsFallbackOnHttpError(outcome) == outcome \in {"400", "other"}

\* except HttpError: if error.resp.status == 400
RunsFallback(outcome) == outcome = "400"

\* Caught for a handler that is not around the parser call of the fallback
CaughtOutsideFallback(at) == at \in {"service", "quickAdd", "insert"}

\* the statements whose exceptions reach an 'except Exception': the outer
\* handler of create_event_from_conversation is around every statement of
\* the function, the call of the fallback included, and the handler of
\* create_event_manual_parse is around its service and insert calls
Caught(at) == at \in {"service", "quickAdd", "parser", "insert"}

\* the call after the statement 'at' raised: the handler returns a failure
\* dictionary, and an exception no handler is around leaves the call
Raise(c, at) ==
    IF Caught(at)
    THEN [c EXCEPT !.pc = "returned", !.failure = <<at>>,
                   !.reply = <<Failed(at)>>]
    ELSE [c EXCEPT !.pc = "raised", !.failure = <<at>>]

\* the conversations: texts with every kind of parse result, the clock late
\* on a day and at the end of a month and of a year
EventCalls ==
    (TimeTexts \X {LateNow}) \cup (DayTexts \X MonthNows)

InitEvent ==
    /\ \E call \in EventCalls :
         /\ input = call[1]
         /\ clock = call[2]
         /\ library \in VerdictsOn(call[1])
    /\ pc = "idle"
    /\ text = <<>>
    /\ now = <<>>
    /\ is_all_day = FALSE
    /\ base_date = <<>>
    /\ time_found = FALSE
    /\ end_datetime = <<>>
    /\ result = <<>>
    /\ previous = <<>>
    /\ parked = <<>>
    /\ conv = [NoConversation EXCEPT !.pc = "service"]
    /\ BesideConvIdle

\* service = get_calendar_service(); text = conversation_text.strip()
ObtainService ==
    /\ conv.pc = "service"
    /\ \/ conv' = [conv EXCEPT !.pc = "quickAdd", !.text = Strip(input)]
       \/ conv' = Raise(conv, "service")
    /\ UNCHANGED <<parser, besideConv>>

\* service.events().quickAdd(calendarId='primary', text=text).execute() and
\* what follows it: the result dictionary, the fallback or the handler
QuickAdd ==
    /\ conv.pc = "quickAdd"
    /\ \E outcome \in {"created", "400", "other", "failed"} :
         IF outcome = "created"
         THEN /\ conv' = [conv EXCEPT !.pc = "returned",
                            !.quickAdd = outcome,
                            !.calls = Append(@, "quickAdd"),
                            !.events = Append(@, [method |-> "quickAdd",
                                                  body |-> <<>>]),
                            !.reply = <<Succeeded>>]
              /\ UNCHANGED <<parser, besideConv>>
         ELSE IF RunsFallback(outcome)
         THEN /\ conv' = [conv EXCEPT !.pc = "fallback",
                            !.quickAdd = outcome,
                            !.calls = Append(@, "quickAdd")]
              /\ input' = conv.text
              /\ pc' = "call"
              /\ UNCHANGED <<clock, text, now, is_all_day, base_date,
                             time_found, end_datetime, result, library,
                             previous, parked, besideConv>>
         ELSE /\ conv' = Raise([conv EXCEPT !.quickAdd = outcome,
                                             !.calls = Append(@, "quickAdd")],
                                "quickAdd")
              /\ UNCHANGED <<parser, besideConv>>

\* the parser called by the fallback raised: line 37 is before the 'try' of
\* create_event_manual_parse, so the exception leaves the fallback
ParserRaised ==
    /\ conv.pc = "fallback"
    /\ pc = "raised"
    /\ conv' = Raise(conv, "parser")
    /\ UNCHANGED <<parser, besideConv>>

\* Insert whose handler also runs after the event was created
InsertThenHandler ==
    /\ conv.pc = "fallback"
    /\ pc = "done"
    /\ \/ conv' = Raise(conv, "service")
       \/ conv' = Raise([conv EXCEPT !.calls = Append(@, "insert")], "insert")
       \/ conv' = Raise([conv EXCEPT
                     !.calls = Append(@, "insert"),
                     !.events = Append(@, [method |-> "insert",
                                           body |-> <<EventBody(result[1])>>])],
                     "insert")
       \/ conv' = [conv EXCEPT !.pc = "returned",
                     !.calls = Append(@, "insert"),
                     !.events = Append(@, [method |-> "insert",
                                           body |-> <<EventBody(result[1])>>]),
                     !.reply = <<Succeeded>>]
    /\ UNCHANGED <<parser, besideConv>>

\* lines 48-135 of create_event_manual_parse: the service, the event body,
\* events().insert(...).execute(), the result dictionary, the handler
Insert ==
    /\ conv.pc = "fallback"
    /\ pc = "done"
    /\ \/ conv' = Raise(conv, "service")
       \/ conv' = Raise([conv EXCEPT !.calls = Append(@, "insert")], "insert")
       \/ conv' = [conv EXCEPT !.pc = "returned",
                     !.calls = Append(@, "insert"),
                     !.events = Append(@, [method |-> "insert",
                                           body |-> <<EventBody(result[1])>>]),
                     !.reply = <<Succeeded>>]
    /\ UNCHANGED <<parser, besideConv>>

NextEvent == Next \/ ObtainService \/ QuickAdd \/ ParserRaised \/ Insert

\* one call of create_event_from_conversation
SpecEvent == InitEvent /\ [][NextEvent]_vars


\* the date after the calendar date d, by year, month and day
NextDate(d) ==
    IF d.day < DaysInMonth(d.year, d.month) THEN [d EXCEPT !.day = @ + 1]
    ELSE IF d.month < 12
    THEN [year |-> d.year, month |-> d.month + 1, day |-> 1]
    ELSE [year |-> d.year + 1, month |-> 1, day |-> 1]

\* a calendar date written as YYYY-MM-DD
DateText(d) ==
    Digits(d.year, 4) \o <<"-">> \o Digits(d.month, 2) \o <<"-">>
        \o Digits(d.day, 2)

\* the events the fallback inserted for an all-day parse result
AllDayInserted ==
    {i \in 1..Len(conv.events) :
        conv.events[i].method = "insert" /\ result[1].is_all_day}

\* C22: for an all-day parse result, the event create_event_manual_parse
\* inserts has a date-only start that is start_date and a date-only end that
\* is the calendar date after start_date
C22_AllDayEvent ==
    \A i \in AllDayInserted :
        /\ conv.events[i].body[1].start =
             [NoKeys EXCEPT !.date = <<DateText(DateOf(result[1].start_date[1]))>>]
        /\ conv.events[i].body[1].end =
             [NoKeys EXCEPT
                !.date = <<DateText(NextDate(DateOf(result[1].start_date[1])))>>]

\* an all-day event was inserted for the last day of a year
C22_Witness ==
    /\ AllDayInserted # {}
    /\ DateOf(result[1].start_date[1]).month = 12
    /\ DateOf(result[1].start_date[1]).day = 31


\* the events the fallback inserted for a timed parse result
TimedInserted ==
    {i \in 1..Len(conv.events) :
        conv.events[i].method = "insert" /\ ~result[1].is_all_day}

\* C23: every timed event create_event_manual_parse inserts has an end: the
\* parser's end_datetime when the parse result carries one, and one hour
\* after the start otherwise
C23_TimedEventHasEnd ==
    \A i \in TimedInserted :
        /\ conv.events[i].body[1].start.dateTime =
             <<IsoFormat(result[1].start_datetime[1])>>
        /\ conv.events[i].body[1].end.dateTime =
             IF result[1].end_datetime # <<>>
             THEN <<IsoFormat(result[1].end_datetime[1])>>
             ELSE <<IsoFormat(OneHourAfter(result[1].start_datetime[1]))>>

\* a timed event was inserted for a result with no end, starting in the
\* last hour of a day
C23_Witness ==
    /\ TimedInserted # {}
    /\ result[1].end_datetime = <<>>
    /\ result[1].start_datetime[1].hour = 23


\* C24: quickAdd is the first request of a call; the fallback (the parser
\* call and events().insert) runs exactly when quickAdd raised an HttpError
\* with status 400; after a quickAdd that succeeded or failed otherwise
\* insert is never called; and a call creates at most one event
C24_QuickAddThenFallback ==
    /\ conv.calls # <<>> => conv.calls[1] = "quickAdd"
    /\ (conv.quickAdd = "400") <=> (pc # "idle")
    /\ conv.pc = "fallback" => conv.quickAdd = "400"
    /\ (\E i \in 1..Len(conv.calls) : conv.calls[i] = "insert") =>
           conv.quickAdd = "400" /\ conv.calls = <<"quickAdd", "insert">>
    /\ Len(conv.events) <= 1

\* the fallback inserted the one event of a call whose quickAdd raised 400
C24_Witness ==
    /\ conv.pc = "returned"
    /\ conv.calls = <<"quickAdd", "insert">>
    /\ Len(conv.events) = 1
    /\ conv.events[1].method = "insert"


\* C25: create_event_from_conversation never ends with an exception: after
\* a failure of the service, of quickAdd, of the parser called by the
\* fallback or of insert, the call has returned a dictionary with
\* success = False and an error message
C25_NeverRaises ==
    /\ conv.pc # "raised"
    /\ pc = "raised" => conv.pc \in {"fallback", "returned"}
    /\ conv.failure # <<>> =>
           /\ conv.pc = "returned"
           /\ conv.reply # <<>>
           /\ ~conv.reply[1].success
           /\ conv.reply[1].error # <<>>

\* the parser called by the fallback raised and the call returned a failure
C25_Witness ==
    /\ pc = "raised"
    /\ conv.pc = "returned"
    /\ conv.failure = <<"parser">>
    /\ ~conv.reply[1].success


ParserIdle ==
    /\ input = <<>>
    /\ clock = Instant(0, 9, 0, 0, 0)
    /\ pc = "idle"
    /\ text = <<>>
    /\ now = <<>>
    /\ is_all_day = FALSE
    /\ base_date = <<>>
    /\ time_found = FALSE
    /\ end_datetime = <<>>
    /\ result = <<>>
    /\ library = "parses"
    /\ previous = <<>>
    /\ parked = <<>>

\* the threads that call get_calendar_service
MaxThreads == 3
Threads == 1..MaxThreads

\* auth.cache     _cached_calendar_service: <<>> is None, <<k>> the k-th
\*                service object built in this process
\* auth.made      how many times authenticate_google_calendar returned
\* auth.pc[t]     position of thread t: "idle" before its call, "check"
\*                (line 96), "authenticate" (the call of line 98), "store"
\*                (the assignment of line 98), "return" (line 100), "done",
\*                "raised"
\* auth.local[t]  the value authenticate_google_calendar returned to t
\* auth.got[t]    <<>>, or the service get_calendar_service returned to t
\* auth.late[t]   the call of t began after another call had returned
InitService ==
    /\ ParserIdle
    /\ conv = NoConversation
    /\ auth = [cache |-> <<>>, made |-> 0,
               pc |-> [t \in Threads |-> "idle"],
               local |-> [t \in Threads |-> <<>>],
               got |-> [t \in Threads |-> <<>>],
               late |-> [t \in Threads |-> FALSE]]
    /\ timers = <<>>
    /\ meetings = <<>>
    /\ slots = <<>>

besideAuth == <<parser, conv, timers, meetings, slots>>

\* a thread calls get_calendar_service
BeginCall(t) ==
    /\ auth.pc[t] = "idle"
    /\ auth' = [auth EXCEPT
                  !.pc[t] = "check",
                  !.late[t] = \E u \in Threads : auth.pc[u] = "done"]
    /\ UNCHANGED besideAuth

\* line 96: if _cached_calendar_service is None
CheckCache(t) ==
    /\ auth.pc[t] = "check"
    /\ auth' = [auth EXCEPT
                  !.pc[t] = IF auth.cache = <<>> THEN "authenticate"
                            ELSE "return"]
    /\ UNCHANGED besideAuth

\* line 98, right-hand side: authenticate_google_calendar() returns a new
\* service object, or raises (credentials.json not found, lines 68-71)
Authenticate(t) ==
    /\ auth.pc[t] = "authenticate"
    /\ \/ auth' = [auth EXCEPT !.made = @ + 1,
                               !.local[t] = <<auth.made + 1>>,
                               !.pc[t] = "store"]
       \/ auth' = [auth EXCEPT !.pc[t] = "raised"]
    /\ UNCHANGED besideAuth

\* line 98, the assignment to the global
StoreCache(t) ==
    /\ auth.pc[t] = "store"
    /\ auth' = [auth EXCEPT !.cache = auth.local[t], !.pc[t] = "return"]
    /\ UNCHANGED besideAuth

\* line 100: return _cached_calendar_service
ReturnService(t) ==
    /\ auth.pc[t] = "return"
    /\ auth' = [auth EXCEPT !.got[t] = auth.cache, !.pc[t] = "done"]
    /\ UNCHANGED besideAuth

NextService ==
    \E t \in Threads :
        \/ BeginCall(t)
        \/ CheckCache(t)
        \/ Authenticate(t)
        \/ StoreCache(t)
        \/ ReturnService(t)

\* the threads of one process call get_calendar_service
SpecService == InitService /\ [][NextService]_vars

\* C27: under every interleaving of get_calendar_service calls,
\* authenticate_google_calendar completes at most once, all calls that
\* returned got the same service object, and a call that began after
\* another had returned does not authenticate
C27_AuthenticateOnce ==
    /\ auth.made <= 1
    /\ \A t \in Threads, u \in Threads :
           (auth.got[t] # <<>> /\ auth.got[u] # <<>>) =>
               auth.got[t] = auth.got[u]
    /\ \A t \in Threads :
           auth.late[t] => auth.pc[t] \notin {"authenticate", "store"}


(***************************************************************************)
(* VoiceCommandProcessor: set_timer, _run_timer, get_active_timers          *)
(***************************************************************************)

\* the requests one processor receives
MaxRequests == 3

\* duration_minutes as the caller gives it: an int, or a str that int()
\* converts (value <<n>>) or rejects with ValueError (value <<>>)
Durations ==
    {[str |-> FALSE, value |-> <<n>>] : n \in {-1, 0, 1, 2}}
    \cup {[str |-> TRUE, value |-> <<2>>], [str |-> TRUE, value |-> <<>>]}

\* timers.active   self.active_timers: the k-th entry is the timer with the
\*                 k-th uuid this processor drew
\* timers.threads  the position of the thread of each timer: "sleep",
\*                 "update" (lines 341-352), "handler" (lines 354-358),
\*                 "ended"
\* timers.requests how many set_timer and get_active_timers calls were made
\* timers.reply    <<>>, or what the last call returned
InitTimer ==
    /\ ParserIdle
    /\ conv = NoConversation
    /\ auth = <<>>
    /\ timers = [active |-> <<>>, threads |-> <<>>, requests |-> 0,
                 reply |-> <<>>]
    /\ meetings = <<>>
    /\ slots = <<>>

besideTimers == <<parser, conv, auth, meetings, slots>>

\* StoresTimer that lets a zero duration through
StoresTimerFromZero(duration) == duration >= 0

\* line 272: a duration that is not positive is refused
StoresTimer(duration) == ~(duration <= 0)

\* set_timer(duration_minutes)
SetTimer(d) ==
    /\ timers.requests < MaxRequests
    /\ IF d.value = <<>>
       THEN timers' = [timers EXCEPT
                         !.requests = @ + 1,
                         !.reply = <<[call |-> "set_timer", success |-> FALSE,
                                      duration |-> d.value, listed |-> {}]>>]
       ELSE IF StoresTimer(d.value[1])
       THEN timers' = [timers EXCEPT
                         !.requests = @ + 1,
                         !.active = Append(@, [status |-> "running",
                                               duration |-> d.value[1]]),
                         !.threads = Append(@, "sleep"),
                         !.reply = <<[call |-> "set_timer", success |-> TRUE,
                                      duration |-> d.value, listed |-> {}]>>]
       ELSE timers' = [timers EXCEPT
                         !.requests = @ + 1,
                         !.reply = <<[call |-> "set_timer", success |-> FALSE,
                                      duration |-> d.value, listed |-> {}]>>]
    /\ UNCHANGED besideTimers

\* _run_timer, line 338: time.sleep(duration_minutes * 60) returns or raises
Wake(i) ==
    /\ i \in 1..Len(timers.threads)
    /\ timers.threads[i] = "sleep"
    /\ \/ timers' = [timers EXCEPT !.threads[i] = "update"]
       \/ timers' = [timers EXCEPT !.threads[i] = "handler"]
    /\ UNCHANGED besideTimers

\* _run_timer, lines 341-352: the status becomes 'completed'
Complete(i) ==
    /\ i \in 1..Len(timers.threads)
    /\ timers.threads[i] = "update"
    /\ timers' = [timers EXCEPT !.threads[i] = "ended",
                                !.active[i].status = "completed"]
    /\ UNCHANGED besideTimers

\* _run_timer, lines 354-358: the status becomes 'error'
HandleError(i) ==
    /\ i \in 1..Len(timers.threads)
    /\ timers.threads[i] = "handler"
    /\ timers' = [timers EXCEPT !.threads[i] = "ended",
                                !.active[i].status = "error"]
    /\ UNCHANGED besideTimers

\* get_active_timers: the timers whose status is 'running'
GetActiveTimers ==
    /\ timers.requests < MaxRequests
    /\ timers' = [timers EXCEPT
                    !.requests = @ + 1,
                    !.reply = <<[call |-> "get_active_timers",
                                 success |-> TRUE, duration |-> <<>>,
                                 listed |-> {i \in 1..Len(timers.active) :
                                     timers.active[i].status = "running"}]>>]
    /\ UNCHANGED besideTimers

NextTimer ==
    \/ \E d \in Durations : SetTimer(d)
    \/ GetActiveTimers
    \/ \E i \in 1..MaxRequests : Wake(i) \/ Complete(i) \/ HandleError(i)

\* one processor and the threads of its timers; a thread that can take its
\* next step eventually takes it
SpecTimer ==
    /\ InitTimer
    /\ [][NextTimer]_vars
    /\ \A i \in 1..MaxRequests :
          WF_vars(Wake(i)) /\ WF_vars(Complete(i)) /\ WF_vars(HandleError(i))

\* the timer i is stored with the status s
TimerIs(i, s) == i \in 1..Len(timers.active) /\ timers.active[i].status = s

\* one step of the program, seen from the timers: a new entry is 'running',
\* has a positive duration and a thread; an entry stays; a status moves only
\* from 'running' and only to 'completed' or 'error'; a set_timer call with
\* no positive duration leaves the timers and the threads as they were
TimerStep ==
    /\ Len(timers'.active) >= Len(timers.active)
    /\ Len(timers'.threads) = Len(timers'.active)
    /\ \A i \in 1..Len(timers'.active) :
          IF i > Len(timers.active)
          THEN /\ timers'.active[i].status = "running"
               /\ timers'.active[i].duration > 0
               /\ timers'.threads[i] = "sleep"
          ELSE /\ timers.active[i].status # "running" =>
                      timers'.active[i].status = timers.active[i].status
               /\ timers'.active[i].status \in
                      {timers.active[i].status, "completed", "error"}
    /\ (/\ timers'.requests > timers.requests
        /\ timers'.reply[1].call = "set_timer"
        /\ \/ timers'.reply[1].duration = <<>>
           \/ timers'.reply[1].duration[1] <= 0)
       => /\ timers'.active = timers.active
          /\ timers'.threads = timers.threads

\* C28: a timer set with a positive duration is stored as 'running'; its
\* status then changes once, to 'completed' or 'error', and never back; its
\* entry is never removed; with the background thread scheduled fairly it
\* eventually leaves 'running'; a set_timer call with a duration that is
\* not positive stores no timer and starts no thread
C28_TimerLifecycle ==
    /\ [][TimerStep]_vars
    /\ \A i \in 1..MaxRequests :
          TimerIs(i, "running") ~> (TimerIs(i, "completed") \/ TimerIs(i, "error"))

\* three timers were set and one of them has completed while another runs
C28_Witness ==
    /\ Len(timers.active) = MaxRequests
    /\ \E i \in 1..MaxRequests : TimerIs(i, "completed")
    /\ \E i \in 1..MaxRequests : TimerIs(i, "running")


(***************************************************************************)
(* routes/meetings.py: list, create, update and delete of meetings          *)
(***************************************************************************)

\* the users (JWT identities) and the meetings one run creates
MaxUsers == 2
MaxMeetings == 2
Users == 1..MaxUsers
MeetingIds == 1..MaxMeetings

\* payload values: title 0 is blank or missing; start_time -1 is a missing
\* key, 0 a string datetime.fromisoformat rejects, 1 and 2 two instants
Titles == 0..2
StartTimes == -1..2

\* meetings.rows[i]  <<>> when no row has the id i, else <<row>>
\* meetings.made     how many rows were ever inserted (ids are not reused)
\* meetings.last     <<>>, or the last request: who made it, the route, the
\*                   meeting_id of the URL (0 when the route has none), the
\*                   HTTP status and the ids of the meetings in the response
InitMeetings ==
    /\ ParserIdle
    /\ conv = NoConversation
    /\ auth = <<>>
    /\ timers = <<>>
    /\ meetings = [rows |-> [i \in MeetingIds |-> <<>>], made |-> 0,
                   last |-> <<>>]
    /\ slots = <<>>

besideMeetings == <<parser, conv, auth, timers, slots>>

\* the request as it is recorded
Request(user_id, route, meeting_id, status, returned) ==
    <<[user |-> user_id, route |-> route, id |-> meeting_id,
       status |-> status, returned |-> returned]>>

\* OwnedBy that looks at the id alone
OwnedById(rows, meeting_id, user_id) ==
    meeting_id \in MeetingIds /\ rows[meeting_id] # <<>>

\* Meeting.query.filter_by(id=meeting_id, owner_id=user_id) finds a row
OwnedBy(rows, meeting_id, user_id) ==
    /\ meeting_id \in MeetingIds
    /\ rows[meeting_id] # <<>>
    /\ rows[meeting_id][1].owner_id = user_id

\* list_meetings: the rows filter_by(owner_id=user_id) finds (the response
\* is recorded as a set, without the order by start_time)
ListMeetings(user_id) ==
    /\ meetings' = [meetings EXCEPT !.last =
          Request(user_id, "list", 0, 200,
                  {i \in MeetingIds :
                      /\ meetings.rows[i] # <<>>
                      /\ meetings.rows[i][1].owner_id = user_id})]
    /\ UNCHANGED besideMeetings

\* create_meeting
CreateMeeting(user_id, title, start_time) ==
    /\ meetings.made < MaxMeetings
    /\ IF title = 0 \/ start_time < 1
       THEN meetings' = [meetings EXCEPT !.last =
                Request(user_id, "create", 0, 400, {})]
       ELSE meetings' = [meetings EXCEPT
                !.made = @ + 1,
                !.rows[meetings.made + 1] =
                    <<[title |-> title, start_time |-> start_time,
                       owner_id |-> user_id]>>,
                !.last = Request(user_id, "create", 0, 201,
                                 {meetings.made + 1})]
    /\ UNCHANGED besideMeetings

\* update_meeting: first_or_404, then the fields of the payload; a
\* start_time that is not ISO 8601 returns 400 before the commit
UpdateMeeting(user_id, meeting_id, title, start_time) ==
    /\ IF ~OwnedBy(meetings.rows, meeting_id, user_id)
       THEN meetings' = [meetings EXCEPT !.last =
                Request(user_id, "update", meeting_id, 404, {})]
       ELSE IF start_time = 0
       THEN meetings' = [meetings EXCEPT !.last =
                Request(user_id, "update", meeting_id, 400, {})]
       ELSE meetings' = [meetings EXCEPT
                !.rows[meeting_id][1].title = IF title = 0 THEN @ ELSE title,
                !.rows[meeting_id][1].start_time =
                    IF start_time = -1 THEN @ ELSE start_time,
                !.last = Request(user_id, "update", meeting_id, 200,
                                 {meeting_id})]
    /\ UNCHANGED besideMeetings

\* delete_meeting: first_or_404, then the row is deleted
DeleteMeeting(user_id, meeting_id) ==
    /\ IF ~OwnedBy(meetings.rows, meeting_id, user_id)
       THEN meetings' = [meetings EXCEPT !.last =
                Request(user_id, "delete", meeting_id, 404, {})]
       ELSE meetings' = [meetings EXCEPT
                !.rows[meeting_id] = <<>>,
                !.last = Request(user_id, "delete", meeting_id, 200,
                                 {meeting_id})]
    /\ UNCHANGED besideMeetings

NextMeetings ==
    \E user_id \in Users :
        \/ ListMeetings(user_id)
        \/ \E title \in Titles, start_time \in StartTimes :
               CreateMeeting(user_id, title, start_time)
        \/ \E meeting_id \in MeetingIds, title \in Titles,
              start_time \in StartTimes :
               UpdateMeeting(user_id, meeting_id, title, start_time)
        \/ \E meeting_id \in MeetingIds : DeleteMeeting(user_id, meeting_id)

\* any sequence of requests by the users
SpecMeetings == InitMeetings /\ [][NextMeetings]_vars

\* the owner of the meeting i before and after the step, <<>> when the
\* table has no such row
OwnerBefore(i) ==
    IF meetings.rows[i] = <<>> THEN <<>> ELSE <<meetings.rows[i][1].owner_id>>
OwnerAfter(i) ==
    IF meetings'.rows[i] = <<>> THEN <<>>
    ELSE <<meetings'.rows[i][1].owner_id>>

\* one request: what it returns, changes, deletes or creates belongs to the
\* user who made it
OwnRowsOnly ==
    meetings'.last # <<>> =>
        \A i \in MeetingIds :
            /\ i \in meetings'.last[1].returned =>
                   <<meetings'.last[1].user>> \in {OwnerBefore(i), OwnerAfter(i)}
            /\ (meetings'.rows[i] # meetings.rows[i] /\ OwnerBefore(i) # <<>>) =>
                   OwnerBefore(i) = <<meetings'.last[1].user>>
            /\ (OwnerBefore(i) = <<>> /\ OwnerAfter(i) # <<>>) =>
                   OwnerAfter(i) = <<meetings'.last[1].user>>
            /\ (OwnerBefore(i) # <<>> /\ OwnerAfter(i) # <<>>) =>
                   OwnerAfter(i) = OwnerBefore(i)

\* C29: in every sequence of list, create, update and delete requests by
\* several users, a request never returns, modifies or deletes a meeting
\* owned by another user, and a created meeting is owned by its creator
C29_OwnMeetingsOnly == [][OwnRowsOnly]_vars

\* a user asked to delete the meeting of another user and got 404, and the
\* meeting is still there
C29_Witness ==
    /\ meetings.last # <<>>
    /\ meetings.last[1].route = "delete"
    /\ meetings.last[1].status = 404
    /\ meetings.last[1].id \in MeetingIds
    /\ meetings.rows[meetings.last[1].id] # <<>>
    /\ meetings.rows[meetings.last[1].id][1].owner_id # meetings.last[1].user


(***************************************************************************)
(* find_meeting_slots                                                       *)
(***************************************************************************)

\* instants of this function are minutes since 00:00 of the first day
Clock(d, h, mi) == d * 1440 + h * 60 + mi
HourOfDay(t) == (t % 1440) \div 60
Midnight(t) == t - (t % 1440)
Larger(a, b) == IF a < b THEN b ELSE a
Smaller(a, b) == IF a < b THEN a ELSE b

\* how many busy intervals the calendars report
MaxBusy == 2

\* the busy intervals a calendar can report, <<start, end>>
BusyChoices ==
    {<<Clock(0, 9, 0), Clock(0, 10, 0)>>, <<Clock(0, 9, 30), Clock(0, 11, 0)>>,
     <<Clock(0, 10, 0), Clock(0, 10, 30)>>, <<Clock(0, 11, 0), Clock(0, 16, 45)>>,
     <<Clock(0, 16, 0), Clock(1, 9, 20)>>}

\* busy_slots in the order of the calendars of the response
BusyLists ==
    {<<>>} \cup {<<a>> : a \in BusyChoices}
    \cup {<<a, b>> : a \in BusyChoices, b \in BusyChoices}

\* tuple order of sorted(): by start, then by end
TupleBefore(a, b) == a[1] < b[1] \/ (a[1] = b[1] /\ a[2] <= b[2])

RECURSIVE SortedInto(_, _)
\* the sorted list s with the tuple x put in its place
SortedInto(s, x) ==
    IF s = <<>> THEN <<x>>
    ELSE IF TupleBefore(x, Head(s)) THEN <<x>> \o s
    ELSE <<Head(s)>> \o SortedInto(Tail(s), x)

RECURSIVE SortedBusy(_)
\* busy_times: sorted(...) of the busy intervals
SortedBusy(s) ==
    IF s = <<>> THEN <<>>
    ELSE SortedInto(SortedBusy(Tail(s)), Head(s))

RECURSIVE MergeFrom(_, _, _, _)
\* lines 890-896: the loop over busy_times[1:]
MergeFrom(busy_times, i, current, merged) ==
    IF i > Len(busy_times) THEN Append(merged, current)
    ELSE IF busy_times[i][1] < current[2]
    THEN MergeFrom(busy_times, i + 1,
                   <<current[1], Larger(current[2], busy_times[i][2])>>, merged)
    ELSE MergeFrom(busy_times, i + 1, busy_times[i], Append(merged, current))

\* merged_busy
MergedBusy(busy_times) ==
    IF busy_times = <<>> THEN <<>>
    ELSE MergeFrom(busy_times, 2, busy_times[1], <<>>)

\* line 915: max(search_time, busy_start) < min(potential_end_time, busy_end)
Overlaps(search_time, potential_end_time, busy) ==
    Larger(search_time, busy[1]) < Smaller(potential_end_time, busy[2])

\* slots.pc          "query", "merge", "search", "returned"
\* slots.utcnow      datetime.utcnow(), a naive datetime
\* slots.duration    duration_minutes
\* slots.days_ahead  days_ahead
\* slots.aware       the datetimes parser.isoparse makes of the response
\*                   carry a UTC offset (RFC 3339 strings, as the calendar
\*                   API writes them) or do not
\* slots.busy_slots, slots.merged_busy, slots.search_time, slots.free_slots
\*                   the locals of these names (free_slots holds the
\*                   instants, before strftime)
\* slots.reply       <<>>, or the kind of list returned: "slots", "message",
\*                   "error"
SlotCalls ==
    [utcnow : {Clock(0, 7, 15), Clock(0, 16, 40)}, duration : {30, 60},
     days_ahead : {1}, aware : BOOLEAN, busy_slots : BusyLists]

InitSlots ==
    /\ ParserIdle
    /\ conv = NoConversation
    /\ auth = <<>>
    /\ timers = <<>>
    /\ meetings = <<>>
    /\ \E call \in SlotCalls :
         slots = [pc |-> "query", utcnow |-> call.utcnow,
                  duration |-> call.duration, days_ahead |-> call.days_ahead,
                  aware |-> call.aware, busy_slots |-> call.busy_slots,
                  queried |-> FALSE, merged_busy |-> <<>>, search_time |-> 0,
                  free_slots |-> <<>>, reply |-> <<>>]

besideSlots == <<parser, conv, auth, timers, meetings>>

\* time_min_dt and time_max_dt
TimeMin == Midnight(slots.utcnow) + Clock(0, 8, 0)
TimeMax == slots.utcnow + slots.days_ahead * 1440

\* lines 861-884: the service, the freebusy query, the busy intervals
QueryFreeBusy ==
    /\ slots.pc = "query"
    /\ \/ slots' = [slots EXCEPT !.pc = "returned", !.reply = <<"error">>]
       \/ slots' = [slots EXCEPT
                      !.queried = TRUE,
                      !.pc = IF slots.busy_slots = <<>> THEN "returned"
                             ELSE "merge",
                      !.reply = IF slots.busy_slots = <<>> THEN <<"message">>
                                ELSE <<>>]
    /\ UNCHANGED besideSlots

\* lines 886-901: sort, merge, search_time = time_min_dt
MergeBusy ==
    /\ slots.pc = "merge"
    /\ slots' = [slots EXCEPT
                   !.pc = "search",
                   !.merged_busy = MergedBusy(SortedBusy(slots.busy_slots)),
                   !.search_time = TimeMin]
    /\ UNCHANGED besideSlots

\* the merged intervals a slot at search_time overlaps
Hits ==
    {i \in 1..Len(slots.merged_busy) :
        Overlaps(slots.search_time, slots.search_time + slots.duration,
                 slots.merged_busy[i])}

\* lines 903-921: one pass of the while loop; comparing the naive
\* search_time with an aware busy_start raises TypeError, which the handler
\* of lines 925-927 turns into an error message
SearchStep ==
    /\ slots.pc = "search"
    /\ slots.search_time < TimeMax
    /\ Len(slots.free_slots) < 5
    /\ IF HourOfDay(slots.search_time) >= 17
       THEN slots' = [slots EXCEPT !.search_time =
                         Midnight(@) + 1440 + Clock(0, 9, 0)]
       ELSE IF HourOfDay(slots.search_time) < 9
       THEN slots' = [slots EXCEPT !.search_time =
                         Midnight(@) + Clock(0, 9, 0)]
       ELSE IF slots.aware /\ slots.merged_busy # <<>>
       THEN slots' = [slots EXCEPT !.pc = "returned", !.reply = <<"error">>]
       ELSE IF Hits # {}
       THEN slots' = [slots EXCEPT !.search_time =
                         slots.merged_busy[Min(Hits)][2]]
       ELSE slots' = [slots EXCEPT
                         !.free_slots = Append(@, slots.search_time),
                         !.search_time = @ + 30]
    /\ UNCHANGED besideSlots

\* line 923: the loop has ended
ReturnSlots ==
    /\ slots.pc = "search"
    /\ ~(slots.search_time < TimeMax /\ Len(slots.free_slots) < 5)
    /\ slots' = [slots EXCEPT
                   !.pc = "returned",
                   !.reply = IF slots.free_slots # <<>> THEN <<"slots">>
                             ELSE <<"message">>]
    /\ UNCHANGED besideSlots

NextSlots == QueryFreeBusy \/ MergeBusy \/ SearchStep \/ ReturnSlots

\* one call of find_meeting_slots
SpecSlots == InitSlots /\ [][NextSlots]_vars

\* the minutes the intervals of a list cover
Covered(list) ==
    {m \in 0..(3 * 1440) :
        \E i \in 1..Len(list) : list[i][1] <= m /\ m < list[i][2]}

\* merged_busy is sorted, pairwise disjoint and covers what busy_slots covers
MergedIsExact ==
    /\ \A i \in 1..(Len(slots.merged_busy) - 1) :
          slots.merged_busy[i][2] <= slots.merged_busy[i + 1][1]
    /\ Covered(slots.merged_busy) = Covered(slots.busy_slots)

\* the slots found so far are at most 5, start between 09:00 and 17:00 and
\* overlap no busy interval the calendars reported
SlotsAreFree ==
    /\ Len(slots.free_slots) <= 5
    /\ \A k \in 1..Len(slots.free_slots) :
          /\ 9 <= HourOfDay(slots.free_slots[k])
          /\ HourOfDay(slots.free_slots[k]) < 17
          /\ \A i \in 1..Len(slots.busy_slots) :
                ~Overlaps(slots.free_slots[k],
                          slots.free_slots[k] + slots.duration,
                          slots.busy_slots[i])

\* the search with datetimes that can be compared: what the loop finds is
\* free, and the merge is exact
ComparableSearchIsRight ==
    (~slots.aware /\ slots.pc \in {"search", "returned"} /\ slots.queried
        /\ slots.busy_slots # <<>>)
    => (MergedIsExact /\ SlotsAreFree)

\* C30: for every set of busy intervals the calendars report,
\* find_meeting_slots returns at most 5 slots, each starting between 09:00
\* and 17:00 and overlapping no busy interval, after merging the busy
\* intervals into a sorted, pairwise disjoint list covering the same time
C30_ReturnsFreeSlots ==
    (slots.pc = "returned" /\ slots.queried /\ slots.busy_slots # <<>>) =>
        /\ slots.reply # <<"error">>
        /\ MergedIsExact
        /\ SlotsAreFree

=============================================================================
